---- MODULE Spec2Model ----
(***************************************************************************)
(* A1_manager: dish calibration, geometry kernel and grid layout.          *)
(*                                                                         *)
(* Lengths are exact rationals <<numerator, denominator>> (denominator     *)
(* > 0, lowest terms); Python floats are modelled by their exact values.   *)
(* Square roots are never taken: a radius is carried as its square.        *)
(***************************************************************************)
EXTENDS Integers, Sequences, FiniteSets, TLC

VARIABLES
    \* Dish35mm._calibrate_dish (one call in progress)
    c35_pc,        \* "capture" | "approve" | "returned" | "raised"
    c35_points,    \* the three points of the most recent capture, <<>> before any
    c35_fit,       \* outcome of find_circle on c35_points, NoFit before any
    c35_ncapt,     \* number of three-point captures so far
    c35_nreject,   \* number of operator rejections so far
    c35_approved,  \* the operator accepted the radius of the most recent capture
    c35_result,    \* the returned region, <<>> until the call returns
    \* Dish96well._calibrate_dish and DishIbidi._calibrate_dish (one call each run)
    cal_dish,      \* the dish whose _calibrate_dish is called
    cal_pc,        \* "idle" | "prompt" | "returned"
    cal_ref,       \* the position returned by prompt_for_center, <<>> before
    cal_map,       \* the returned dish_measurements, <<>> before
    \* one call of a geometry function (find_circle, GridBuilder)
    g_call,        \* the call and its arguments, [op |-> "none"] before
    g_out,         \* what the call returned or raised, <<>> before
    \* the dish classes, their registries and one run directory
    class_state,   \* per class statement: "undefined" | "defined" | the exception it raised
    dish_classes,  \* DishCalibManager._dish_classes
    well_classes,  \* WellGridManager._well_classes
    fac,           \* the most recent factory call and its outcome
    dish_name,     \* the dish of the run directory
    dish_obj,      \* the DishCalibManager instance in use, [cls |-> None] before
    files,         \* the files of the run directory: path |-> content
    cd_calls,       \* the calibrate_dish calls so far, in order, with their outcomes
    \* DMD calibration (CalibrateFTurret) and DMD masks (DMDMask)
    dmd_label,     \* Label of FilterTurret1, the active filter-turret configuration
    dmd_transfo,   \* DMDMask.transfo_matrix: PyNone or a dict label -> matrix
    dmd_points,    \* CalibrateFTurret.dmd_points_list, unset until created
    dmd_call,      \* the most recent call on the DMD objects
    dmd_out,       \* its outcome
    dmd_log,       \* mask projections and warpAffine calls of the most recent call
    \* run_autofocus and launch_dish_workflow (one call in progress)
    af_pc,         \* "idle" | "loop" | "well" | "review" | "returned" | "raised"
    af_args,       \* entry point and arguments of the call
    af_sorted,     \* sorted_wells
    af_idx,        \* number of wells of sorted_wells the for loop has left behind
    af_meas,       \* dish_measurements in memory
    af_file,       \* contents of the calibration file
    af_focus,      \* the focus found for the well under review, <<>> otherwise
    af_log,        \* stage moves, focus searches, reviews, saves, in order
    af_raised,     \* the exception run_autofocus raised, None if none
    wf_out,        \* outcome of launch_dish_workflow, <<>> until it ends
    \* A1Manager.light_stimulate (one call in progress)
    ls_pc,         \* "idle" | "pfs" | "sleep" | "returned"
    ls_cfg,        \* the manager's settings and the argument of the call
    ls_shutter_calls, \* the arguments of set_LED_shutter in this call, in order
    ls_shutter,    \* 'Global State' of the lamp: 0 closed, 1 open
    ls_dmd_cmds,   \* the commands sent to the DMD in this call, in order
    ls_cached,     \* Dmd._cached_dmd['exposure_sec']
    ls_count,      \* number of calls started
    \* Lamp.preset_channel on the pE-800, and the Nanopick head
    lamp,          \* the lamp: cache, hardware, the last call and its commands
    head           \* the head: tracked volume, the last call and its volumes

vars35 == <<c35_pc, c35_points, c35_fit, c35_ncapt, c35_nreject, c35_approved, c35_result>>
varsPlate == <<cal_dish, cal_pc, cal_ref, cal_map>>

varsGeom == <<g_call, g_out>>

varsDish == <<class_state, dish_classes, well_classes, fac, dish_name, dish_obj, files, cd_calls>>

varsDmd == <<dmd_label, dmd_transfo, dmd_points, dmd_call, dmd_out, dmd_log>>

varsAf == <<af_pc, af_args, af_sorted, af_idx, af_meas, af_file, af_focus, af_log,
           af_raised, wf_out>>

varsLight == <<ls_pc, ls_cfg, ls_shutter_calls, ls_shutter, ls_dmd_cmds, ls_cached,
              ls_count, lamp, head>>

\* The instrument: DMD calibration and masks, autofocus, light stimulation.
varsInstr == <<varsDmd, varsAf, varsLight>>

varsCore == <<vars35, varsPlate, varsGeom, varsDish>>

vars == <<vars35, varsPlate, varsGeom, varsDish, varsInstr>>

None == "None"

----------------------------------------------------------------------------
(* Exact rational arithmetic *)

Abs(n) == IF n < 0 THEN -n ELSE n

RECURSIVE Gcd(_, _)
Gcd(a, b) == IF b = 0 THEN a ELSE Gcd(b, a % b)

\* The fraction n/d (d # 0) in lowest terms with a positive denominator.
Rat(n, d) ==
    LET g == Gcd(Abs(n), Abs(d))
        s == IF d < 0 THEN -1 ELSE 1
    IN  <<(s * n) \div g, (s * d) \div g>>

RInt(n) == <<n, 1>>
RAdd(a, b) == Rat(a[1] * b[2] + b[1] * a[2], a[2] * b[2])
RSub(a, b) == Rat(a[1] * b[2] - b[1] * a[2], a[2] * b[2])
RMul(a, b) == Rat(a[1] * b[1], a[2] * b[2])
RDiv(a, b) == Rat(a[1] * b[2], a[2] * b[1])
RLt(a, b) == a[1] * b[2] < b[1] * a[2]
RLe(a, b) == a[1] * b[2] <= b[1] * a[2]
RSq(a) == RMul(a, a)

\* Squared distance between two points with rational coordinates.
Dist2(p, q) == RAdd(RSq(RSub(p[1], q[1])), RSq(RSub(p[2], q[2])))

\* An integer point as a point with rational coordinates.
RPoint(p) == <<RInt(p[1]), RInt(p[2])>>

----------------------------------------------------------------------------
(* dish_utils/geometry_utils.py: find_circle *)

\* x1(y2 - y3) + x2(y3 - y1) + x3(y1 - y2)
Determinant(p1, p2, p3) ==
    p1[1] * (p2[2] - p3[2]) + p2[1] * (p3[2] - p1[2]) + p3[1] * (p1[2] - p2[2])

SqNorm(p) == p[1] * p[1] + p[2] * p[2]

find_circle_center_y_swapped(p1, p2, p3) ==
    SqNorm(p1) * (p2[1] - p3[1]) + SqNorm(p2) * (p1[1] - p3[1]) + SqNorm(p3) * (p2[1] - p1[1])

\* Numerator of center_y.
find_circle_center_y(p1, p2, p3) ==
    SqNorm(p1) * (p3[1] - p2[1]) + SqNorm(p2) * (p1[1] - p3[1]) + SqNorm(p3) * (p2[1] - p1[1])

\* Numerator of center_x.
find_circle_center_x(p1, p2, p3) ==
    SqNorm(p1) * (p2[2] - p3[2]) + SqNorm(p2) * (p3[2] - p1[2]) + SqNorm(p3) * (p1[2] - p2[2])

\* find_circle(point1, point2, point3): ValueError when the denominator is 0,
\* otherwise the center and the radius (as radius squared, measured from point1).
find_circle(p1, p2, p3) ==
    LET denominator == 2 * Determinant(p1, p2, p3)
    IN  IF denominator = 0
        THEN [raised |-> "ValueError"]
        ELSE LET center == <<Rat(find_circle_center_x(p1, p2, p3), denominator),
                             Rat(find_circle_center_y(p1, p2, p3), denominator)>>
             IN  [raised |-> None, center |-> center, radius2 |-> Dist2(center, RPoint(p1))]

----------------------------------------------------------------------------
(* dish_calibration/dish_35mm.py: Dish35mm *)

\* SETTINGS_35MM['expected_radius'] = 10.5 mm, in model units of 2625 um.
expected_radius == 4

\* correction_percentage = 0.05
correction_percentage == <<1, 20>>

expected_radius_upper ==
    RAdd(RInt(expected_radius), RMul(RInt(expected_radius), correction_percentage))

expected_radius_lower ==
    RSub(RInt(expected_radius), RMul(RInt(expected_radius), correction_percentage))

radius_in_range_no_lower(radius2) ==
    RLt(radius2, RSq(expected_radius_upper))

\* expected_radius_lower < measured_radius < expected_radius_upper, on squares
\* (all three are non-negative).
radius_in_range(radius2) ==
    /\ RLt(RSq(expected_radius_lower), radius2)
    /\ RLt(radius2, RSq(expected_radius_upper))

NoFit == [raised |-> "NoCall"]

\* Stage positions the operator may confirm as boundary points (model units).
EdgePoints == {<<4, 0>>, <<0, 4>>, <<-4, 0>>, <<0, -4>>, <<5, 0>>, <<2, 2>>, <<1, 4>>}

\* Number of three-point captures explored in one call.
MaxCaptures == 2

Idle35 ==
    /\ c35_pc = "idle"
    /\ c35_points = <<>>
    /\ c35_fit = NoFit
    /\ c35_ncapt = 0
    /\ c35_nreject = 0
    /\ c35_approved = FALSE
    /\ c35_result = <<>>

Init35 ==
    /\ c35_pc = "capture"
    /\ c35_points = <<>>
    /\ c35_fit = NoFit
    /\ c35_ncapt = 0
    /\ c35_nreject = 0
    /\ c35_approved = FALSE
    /\ c35_result = <<>>

\* One pass of the while loop up to the next operator decision:
\* prompt_for_edge_points, find_circle, the tolerance test.
Capture35(p1, p2, p3) ==
    /\ c35_pc = "capture"
    /\ c35_ncapt < MaxCaptures
    /\ LET fit == find_circle(p1, p2, p3)
       IN  /\ c35_points' = <<p1, p2, p3>>
           /\ c35_fit' = fit
           /\ c35_ncapt' = c35_ncapt + 1
           /\ c35_approved' = FALSE
           /\ c35_nreject' = c35_nreject
           /\ UNCHANGED <<varsInstr, varsPlate, varsGeom, varsDish>>
           /\ IF fit.raised # None
              THEN \* the ValueError of find_circle is not caught
                   /\ c35_pc' = "raised"
                   /\ c35_result' = c35_result
              ELSE IF ~radius_in_range(fit.radius2)
              THEN /\ c35_pc' = "approve"
                   /\ c35_result' = c35_result
              ELSE /\ c35_pc' = "returned"
                   /\ c35_result' = [center |-> fit.center, radius2 |-> fit.radius2]

\* prompt_for_calibration_approval: the operator's answer to an out-of-range radius.
Approve35(yes) ==
    /\ c35_pc = "approve"
    /\ c35_points' = c35_points
    /\ c35_fit' = c35_fit
    /\ c35_ncapt' = c35_ncapt
    /\ UNCHANGED <<varsInstr, varsPlate, varsGeom, varsDish>>
    /\ IF yes
       THEN /\ c35_approved' = TRUE
            /\ c35_nreject' = c35_nreject
            /\ c35_pc' = "returned"
            /\ c35_result' = [center |-> c35_fit.center, radius2 |-> c35_fit.radius2]
       ELSE /\ c35_approved' = FALSE
            /\ c35_nreject' = c35_nreject + 1
            /\ c35_pc' = "capture"
            /\ c35_result' = c35_result

----------------------------------------------------------------------------
(* dish_calibration/dish_96well.py: Dish96well *)

\* string.ascii_uppercase
ascii_uppercase ==
    <<"A", "B", "C", "D", "E", "F", "G", "H", "I", "J", "K", "L", "M",
      "N", "O", "P", "Q", "R", "S", "T", "U", "V", "W", "X", "Y", "Z">>

\* f"{letter}{well_number}" for row index i and column index j (both from 0).
WellName(i, j) == ascii_uppercase[i + 1] \o ToString(j + 1)

\* Lengths in micron.
SETTINGS_96WELL ==
    [row_number |-> 8, col_number |-> 12, well_radius |-> 3500,
     length |-> 99000, width |-> 63000]

Well96_pitch_over_cols(x_tl, y_tl, i, j) ==
    LET S == SETTINGS_96WELL
    IN  [center |-> <<RSub(x_tl, RMul(RDiv(RInt(S.length), RInt(S.col_number)), RInt(j))),
                      RAdd(y_tl, RMul(RDiv(RInt(S.width), RInt(S.row_number)), RInt(i)))>>,
         radius |-> RInt(S.well_radius)]

\* The WellCircleCoord of row i, column j.
Well96(x_tl, y_tl, i, j) ==
    LET S == SETTINGS_96WELL
    IN  [center |-> <<RSub(x_tl, RMul(RDiv(RInt(S.length), RInt(S.col_number - 1)), RInt(j))),
                      RAdd(y_tl, RMul(RDiv(RInt(S.width), RInt(S.row_number - 1)), RInt(i)))>>,
         radius |-> RInt(S.well_radius)]

\* The dict the two nested loops fill with value[<<i, j>>]: iteration
\* k = i * col_number + j writes key WellName(i, j), and a repeated key keeps
\* the value written last.
LoopDict(rows, cols, value) ==
    LET K == 0..(rows * cols - 1)
        Key(k) == WellName(k \div cols, k % cols)
        Last(n) == LET S == {k \in K : Key(k) = n}
                   IN  CHOOSE k \in S : \A k2 \in S : k2 <= k
    IN  [n \in {Key(k) : k \in K} |-> value[<<Last(n) \div cols, Last(n) % cols>>]]

\* Dish96well._calibrate_dish, for the position the operator confirmed.
Dish96well_calibrate(ref) ==
    LET S == SETTINGS_96WELL
        value == [ij \in (0..(S.row_number - 1)) \X (0..(S.col_number - 1)) |->
                     Well96(ref[1], ref[2], ij[1], ij[2])]
    IN  LoopDict(S.row_number, S.col_number, value)

----------------------------------------------------------------------------
(* dish_calibration/dish_ibidi.py: DishIbidi *)

\* Lengths in micron.
SETTINGS_IBIDI ==
    [row_number |-> 2, col_number |-> 4, length |-> 48000, width |-> 21000,
     well_length |-> 11000, well_width |-> 10000,
     well_gap_length |-> <<1400, 2000, 1400>>, well_gap_width |-> 1600]

RECURSIVE SumSeq(_)
SumSeq(s) == IF s = <<>> THEN 0 ELSE Head(s) + SumSeq(Tail(s))

\* seq[:j]
Prefix(s, j) == SubSeq(s, 1, IF j < Len(s) THEN j ELSE Len(s))

ibidi_gap_sum_uniform(j) ==
    IF j > 0 THEN j * SETTINGS_IBIDI.well_gap_length[1] ELSE 0

\* sum(self.well_gap_length[:j]) if j > 0 else 0
ibidi_gap_sum(j) ==
    IF j > 0 THEN SumSeq(Prefix(SETTINGS_IBIDI.well_gap_length, j)) ELSE 0

\* The WellSquareCoord of row i, column j, from the corners of well A1.
WellIbidi(x_tl, y_tl, x_br, y_br, i, j) ==
    LET S == SETTINGS_IBIDI
        dx == RInt(S.well_length * j + ibidi_gap_sum(j))
        dy == RInt((S.well_width + S.well_gap_width) * i)
    IN  [top_left |-> <<RSub(x_tl, dx), RAdd(y_tl, dy)>>,
         bottom_right |-> <<RSub(x_br, dx), RAdd(y_br, dy)>>]

\* DishIbidi._calibrate_dish, for the position the operator confirmed.
DishIbidi_calibrate(ref) ==
    LET S == SETTINGS_IBIDI
        half_l == RDiv(RInt(S.well_length), RInt(2))
        half_w == RDiv(RInt(S.well_width), RInt(2))
        x_tl == RAdd(ref[1], half_l)
        y_tl == RSub(ref[2], half_w)
        x_br == RSub(ref[1], half_l)
        y_br == RAdd(ref[2], half_w)
        value == [ij \in (0..(S.row_number - 1)) \X (0..(S.col_number - 1)) |->
                     WellIbidi(x_tl, y_tl, x_br, y_br, ij[1], ij[2])]
    IN  LoopDict(S.row_number, S.col_number, value)

----------------------------------------------------------------------------
(* dish_utils/geometry_utils.py: compute_optimal_overlap; well_grid/grid_generator.py *)

\* floor, np.ceil and int() of a rational.
RFloor(a) == a[1] \div a[2]
RCeil(a) == -((-a[1]) \div a[2])
RTrunc(a) == IF a[1] >= 0 THEN a[1] \div a[2] ELSE -((-a[1]) \div a[2])

\* compute_optimal_overlap(window_size, well_width, well_length) -> (overlap_x, overlap_y)
compute_optimal_overlap(window_size, well_width, well_length) ==
    LET rectS_in_y == RDiv(RMul(RInt(2), well_width), window_size[2])
        rectS_in_x == RDiv(RMul(RInt(2), well_length), window_size[1])
        ceiled_rectS_in_y == RInt(RCeil(rectS_in_y))
        ceiled_rectS_in_x == RInt(RCeil(rectS_in_x))
        overlap_y == RDiv(RSub(ceiled_rectS_in_y, rectS_in_y), ceiled_rectS_in_y)
        overlap_x == RDiv(RSub(ceiled_rectS_in_x, rectS_in_x), ceiled_rectS_in_x)
    IN  <<overlap_x, overlap_y>>

\* The argument overlap=None.
NoOverlap == <<>>

\* GridBuilder._define_overlap: compute_optimal_overlap(self.window_size, *self.axis_length)
GridBuilder_define_overlap(window_size, axis_length, overlap) ==
    IF overlap # NoOverlap
    THEN <<overlap, overlap>>
    ELSE compute_optimal_overlap(window_size, axis_length[1], axis_length[2])

\* int(self.window_size[k] * (1 - self.overlaps[k]))
GridBuilder_divisor(window_size, overlaps, k) ==
    RTrunc(RMul(window_size[k], RSub(RInt(1), overlaps[k])))

\* GridBuilder._define_number_of_rectangles on one axis (the divisor is not 0):
\* int(axis) // int(window * (1 - overlap))
GridBuilder_define_number_of_rectangles(window_size, axis_length, overlaps, k) ==
    RTrunc(axis_length[k]) \div GridBuilder_divisor(window_size, overlaps, k)

\* GridBuilder._align_rectangles_on_axis on one axis.
GridBuilder_align_rectangles_on_axis(window_size, axis_length, overlaps, num_rects, k) ==
    RDiv(RSub(axis_length[k],
              RMul(RMul(window_size[k], RInt(num_rects[k])), RSub(RInt(1), overlaps[k]))),
         RInt(2))

\* GridBuilder.calculate_layout_parameters(window_size, axis_length, overlap)
calculate_layout_parameters(window_size, axis_length, overlap) ==
    LET overlaps == GridBuilder_define_overlap(window_size, axis_length, overlap)
    IN  IF \E k \in 1..2 : GridBuilder_divisor(window_size, overlaps, k) = 0
        THEN [raised |-> "ZeroDivisionError", overlaps |-> overlaps]
        ELSE LET num_rects ==
                     <<GridBuilder_define_number_of_rectangles(window_size, axis_length, overlaps, 1),
                       GridBuilder_define_number_of_rectangles(window_size, axis_length, overlaps, 2)>>
                 corr(k) == GridBuilder_align_rectangles_on_axis(
                                window_size, axis_length, overlaps, num_rects, k)
             IN  [raised |-> None, overlaps |-> overlaps, num_rects |-> num_rects,
                  align_correction |-> <<corr(1), corr(2)>>]

----------------------------------------------------------------------------
(* well_grid/well_circle.py: WellCircleGrid *)

\* The argument n_corners_in: <<>> for None, <<k>> for the number k.
\* unpack_well_properties: self.n_corners_in = 4 if n_corners_in is None else n_corners_in
unpack_n_corners_in(n_corners_in) ==
    IF n_corners_in = <<>> THEN 4 ELSE n_corners_in[1]

\* WellCircleGrid._is_point_inside_circle
is_point_inside_circle(center, radius, point) ==
    RLt(Dist2(point, center), RSq(radius))

\* The four corners of the window centered at rect_coord.
rectangle_corners(window_size, rect_coord) ==
    LET half_w == RDiv(window_size[1], RInt(2))
        half_h == RDiv(window_size[2], RInt(2))
    IN  << <<RAdd(rect_coord[1], half_w), RAdd(rect_coord[2], half_h)>>,
           <<RSub(rect_coord[1], half_w), RAdd(rect_coord[2], half_h)>>,
           <<RAdd(rect_coord[1], half_w), RSub(rect_coord[2], half_h)>>,
           <<RSub(rect_coord[1], half_w), RSub(rect_coord[2], half_h)>> >>

\* WellCircleGrid._is_rectangle_within_circle
is_rectangle_within_circle(center, radius, window_size, rect_coord, n_corner_in) ==
    LET corners == rectangle_corners(window_size, rect_coord)
        inside_count ==
            Cardinality({c \in 1..4 : is_point_inside_circle(center, radius, corners[c])})
    IN  inside_count >= n_corner_in

----------------------------------------------------------------------------
(* well_grid_manager.py: _configure_grid_instance, _build_well_grid; a1manager.py *)

\* WellGridManager._update_dmd_window_flag
update_dmd_window_flag(is_dmd_attached, dmd_window_only) ==
    IF ~is_dmd_attached THEN FALSE ELSE dmd_window_only

\* pixel_calibration = {'10x': 0.6461, '20x': 0.3258}
pixel_calibration == ("10x" :> Rat(6461, 10000)) @@ ("20x" :> Rat(3258, 10000))

\* A1Manager._size_pixel2micron: "if size_in_pixel:" is false for 0 as for None,
\* and the size of the whole image is converted instead.
size_pixel2micron(objective, binning, size_in_pixel) ==
    IF size_in_pixel # 0
    THEN RMul(RMul(RInt(size_in_pixel), pixel_calibration[objective]), RInt(binning))
    ELSE RMul(RMul(RInt(2048 \div binning), pixel_calibration[objective]), RInt(binning))

\* WellGridManager._adjust_center_offset; corr // binning floors (binning > 0).
adjust_center_offset(dmd_window_only, objective, binning, window_center_offset_pix) ==
    IF ~dmd_window_only \/ window_center_offset_pix = <<0, 0>>
    THEN <<RInt(0), RInt(0)>>
    ELSE LET binned == <<window_center_offset_pix[1] \div binning,
                         window_center_offset_pix[2] \div binning>>
         IN  <<size_pixel2micron(objective, binning, binned[1]),
               size_pixel2micron(objective, binning, binned[2])>>

\* list(reversed(seq))
Reverse(seq) == [k \in 1..Len(seq) |-> seq[Len(seq) + 1 - k]]

y_iterable_forward(i, y_coords) == y_coords

\* y_coords if i % 2 == 0 else list(reversed(y_coords)), for the outer index i from 0
y_iterable(i, y_coords) ==
    IF i % 2 = 0 THEN y_coords ELSE Reverse(y_coords)

\* The grid classes whose update method _build_well_grid runs: WellCircleGrid,
\* WellSquareGrid and the test's DummyWellGridManager.
GridKinds == {"circle", "square", "dummy"}

\* update_well_grid of the grid class: the grid and the count after candidate (x, y).
\*   circle: the point is stored only if the window is within the circle;
\*   square: point['xy'] = ... on a StageCoord, which has no __setitem__;
\*   dummy:  the template is a dict, every point is stored.
update_well_grid(inst, well_grid, count, x, y) ==
    LET point == [xy |-> <<RAdd(x, inst.window_center_offset_um[1]),
                           RSub(y, inst.window_center_offset_um[2])>>]
    IN  IF inst.kind = "square"
        THEN [raised |-> "TypeError", well_grid |-> well_grid, count |-> count]
        ELSE IF inst.kind = "circle"
                /\ ~is_rectangle_within_circle(inst.center, inst.radius, inst.window_size,
                                               <<x, y>>, inst.n_corners_in)
        THEN [raised |-> None, well_grid |-> well_grid, count |-> count]
        ELSE [raised |-> None, well_grid |-> (count :> point) @@ well_grid,
              count |-> count + 1]

\* The inner loop of _build_well_grid from position k of ys on, for one x.
RECURSIVE build_inner(_, _, _, _, _)
build_inner(inst, x, ys, k, acc) ==
    IF k > Len(ys) \/ acc.raised # None
    THEN acc
    ELSE build_inner(inst, x, ys, k + 1,
                     update_well_grid(inst, acc.well_grid, acc.count, x, ys[k]))

\* The outer loop of _build_well_grid from index i (from 0) of x_coords on.
RECURSIVE build_outer(_, _, _, _, _)
build_outer(inst, x_coords, y_coords, i, acc) ==
    IF i >= Len(x_coords) \/ acc.raised # None
    THEN acc
    ELSE build_outer(inst, x_coords, y_coords, i + 1,
                     build_inner(inst, x_coords[i + 1], y_iterable(i, y_coords), 1, acc))

\* WellGridManager._build_well_grid(x_coords, y_coords, temp_point)
build_well_grid(inst, x_coords, y_coords) ==
    LET r == build_outer(inst, x_coords, y_coords, 0,
                         [raised |-> None, well_grid |-> <<>>, count |-> 0])
    IN  [raised |-> r.raised, well_grid |-> r.well_grid]

----------------------------------------------------------------------------
(* dish_utils/geometry_utils.py: randomise_fov *)

Injective(f) == \A a, b \in DOMAIN f : f[a] = f[b] => a = b

random_choice_with_replacement(population, size) ==
    [1..size -> 0..(population - 1)]

\* np.random.choice(range(population), size=size, replace=False): the arrays it can
\* return; none when size exceeds the population (it raises ValueError).
random_choice(population, size) ==
    {draw \in [1..size -> 0..(population - 1)] : Injective(draw)}

\* solve_tsp_simulated_annealing(distance_matrix): the tours it can return are the
\* permutations of the node indices (from 0).
solve_tsp(n) ==
    {tour \in [1..n -> 0..(n - 1)] : Injective(tour)}

\* The dict randomise_fov returns for one outcome of the draw and of the solver.
randomise_fov_result(well_grid, draw, tour) ==
    LET random_indices == SortSeq(draw, LAMBDA a, b : a < b)
        points_lst == [k \in 1..Len(random_indices) |-> well_grid[random_indices[k]]]
        sorted_points == [k \in 1..Len(tour) |-> points_lst[tour[k] + 1]]
    IN  [i \in 0..(Len(sorted_points) - 1) |-> sorted_points[i + 1]]

\* The outcomes of randomise_fov(well_grid, numb_field_view).
randomise_fov(well_grid, numb_field_view) ==
    LET population == Cardinality(DOMAIN well_grid)
    IN  IF random_choice(population, numb_field_view) = {}
        THEN {[raised |-> "ValueError"]}
        ELSE {[raised |-> None, well_grid |-> randomise_fov_result(well_grid, draw, tour)] :
                 draw \in random_choice(population, numb_field_view),
                 tour \in solve_tsp(numb_field_view)}

----------------------------------------------------------------------------
(* microscope_hardware/dmd: dmd_calibration_module.py, dmd_mask_factory.py *)

\* Python values met in the DMD code.
PyNone == [py |-> "None"]
PyMatrix(m) == [py |-> "list", matrix |-> m]
PyDict(items) == [py |-> "dict", items |-> items]

\* np.array(value): an array object also when value is None.
np_array(value) == [py |-> "ndarray", item |-> value]

\* dict.get(key)
dict_get(d, key) == IF key \in DOMAIN d.items THEN d.items[key] ELSE PyNone

\* LIST_TURRETS = ['5-Duo', '4-Quad']
LIST_TURRETS == {"5-Duo", "4-Quad"}

\* CalibrateFTurret.generate_random_points: the check of the count and the length of
\* the list; the k-th point is named k. (-1 % 3 is 2 in Python as in TLA+.)
generate_random_points(numb_points) ==
    IF numb_points % 3 # 0
    THEN [raised |-> "ValueError", points |-> <<>>]
    ELSE [raised |-> None,
          points |-> [k \in 1..(IF numb_points > 0 THEN numb_points ELSE 0) |-> k]]

\* CalibrateFTurret.get_transformation_matrix: one projection and capture per point,
\* then the mean of len // 3 affine transforms; the division of the zero matrix by
\* zero transforms gives a matrix of NaN (numpy warns, the warnings are filtered).
get_transformation_matrix(points) ==
    LET num_transforms == Len(points) \div 3
    IN  [log |-> [k \in 1..Len(points) |-> [event |-> "project", point |-> points[k]]],
         matrix |-> IF num_transforms = 0
                    THEN [py |-> "ndarray", kind |-> "nan", transforms |-> 0]
                    ELSE [py |-> "ndarray", kind |-> "mean", transforms |-> num_transforms]]

\* DMDMask.apply_affine_transform: tmat is np.array(...), which is never None, so
\* warpAffine is always called; cv2 rejects a matrix that is an array of None.
apply_affine_transform(transfo_matrix, turret_label, custom_matrix) ==
    IF custom_matrix.py = "None" /\ transfo_matrix.py = "None"
    THEN [raised |-> "AttributeError", log |-> <<>>]
    ELSE LET tmat == np_array(dict_get(IF custom_matrix.py # "None" THEN custom_matrix
                                       ELSE transfo_matrix, turret_label))
         IN  IF tmat.py = "None"
             THEN [raised |-> "ValueError", log |-> <<>>]
             ELSE [raised |-> IF tmat.item.py = "None" THEN "cv2.error" ELSE None,
                   log |-> <<[event |-> "warpAffine", M |-> tmat]>>]

\* DMDMask.custom_mask(mask_array, transform_mask)
custom_mask(transfo_matrix, turret_label, transform_mask) ==
    IF transform_mask
    THEN apply_affine_transform(transfo_matrix, turret_label, PyNone)
    ELSE [raised |-> None, log |-> <<>>]

----------------------------------------------------------------------------
(* autofocus_main.py: run_autofocus, _focus_one_well; dish_main.py *)

\* Focus values: None is <<>>, a position v is <<v>>.
NoFocus == <<>>

FocusDevices == {"ZDrive", "PFSOffset"}

\* AutoFocusManager._method_mapping
AfMethods == {"sq_grad", "OughtaFocus", "Manual"}

\* The wells of the calibration file with their centers.
AfWells == {"A1", "A2", "B1"}
AfCenter == ("A1" :> <<0, 0>>) @@ ("A2" :> <<10, 0>>) @@ ("B1" :> <<0, 10>>)

\* sorted(row, key=x, reverse=reverse) for wells with distinct x
RECURSIVE SortRow(_, _, _)
SortRow(row, centers, reverse) ==
    IF row = {} THEN <<>>
    ELSE LET first == CHOOSE w \in row : \A v \in row :
                          IF reverse THEN centers[v][1] <= centers[w][1]
                                     ELSE centers[w][1] <= centers[v][1]
         IN  <<first>> \o SortRow(row \ {first}, centers, reverse)

\* The rows of _snake_sort_wells from row index i on: the wells grouped by y in
\* increasing y, even rows by decreasing x, odd rows by increasing x.
RECURSIVE SnakeRows(_, _, _)
SnakeRows(wells, centers, i) ==
    IF wells = {} THEN <<>>
    ELSE LET y == CHOOSE y0 \in {centers[w][2] : w \in wells} :
                      \A w \in wells : y0 <= centers[w][2]
             row == {w \in wells : centers[w][2] = y}
         IN  SortRow(row, centers, i % 2 = 0) \o SnakeRows(wells \ row, centers, i + 1)

\* _snake_sort_wells(dish_measurements)
snake_sort_wells(dish_measurements) ==
    SnakeRows(DOMAIN dish_measurements,
              [w \in DOMAIN dish_measurements |-> dish_measurements[w].center], 0)

\* measurement[focus_device] = focus
SetFocus(dish_measurements, well, focus_device, focus) ==
    [dish_measurements EXCEPT ![well].focus[focus_device] = focus]

SkipWell_ignores_overwrite(measurement, focus_device, overwrite) ==
    measurement.focus[focus_device] # NoFocus

\* The for loop of run_autofocus skips the well.
SkipWell(measurement, focus_device, overwrite) ==
    measurement.focus[focus_device] # NoFocus /\ ~overwrite

\* _move_stage_to_center returns without moving.
NoStageMove(idx, method) == method = "Manual" /\ idx # 0

Event(ev, well) == [ev |-> ev, well |-> well]

after_restart_next_well(idx) == [pc |-> "loop", idx |-> idx + 1]

\* except RestartAutofocus in _focus_one_well: the while loop runs again for the
\* same well.
after_restart(idx) == [pc |-> "well", idx |-> idx]

after_autofocus_swallows_quit(raised) == "create_well_grids"

\* launch_dish_workflow after autofocus_dish: QuitAutofocus is raised again, any
\* other outcome goes on to create_well_grids.
after_autofocus(raised) ==
    IF raised = "QuitAutofocus" THEN "raise" ELSE "create_well_grids"

save_config_file_at_end(saved, dish_measurements, last) ==
    IF last THEN dish_measurements ELSE saved

\* save_config_file(calib_path, dish_measurements) after a well: the file holds
\* the whole dict.
save_config_file(saved, dish_measurements, last) == dish_measurements

----------------------------------------------------------------------------
(* The geometry functions as operations: one call per behaviour *)

\* Integer stage coordinates of the points handed to find_circle.
MaxCoord == 1

Coords == (-MaxCoord)..MaxCoord

\* Window sizes, axis extents (micron) and overlaps handed to the grid builder.
WindowLengths == {RInt(50), Rat(21, 2), RInt(80)}
AxisLengths == {RInt(237), RInt(210), RInt(100)}
OverlapArgs == {NoOverlap, RInt(0), Rat(1, 10), Rat(99, 100)}

IdleGeom ==
    /\ g_call = [op |-> "none"]
    /\ g_out = <<>>

FindCircleCall(p1, p2, p3) ==
    /\ g_call.op = "none"
    /\ g_call' = [op |-> "find_circle", points |-> <<p1, p2, p3>>]
    /\ g_out' = find_circle(p1, p2, p3)
    /\ UNCHANGED <<varsInstr, vars35, varsPlate, varsDish>>

LayoutCall(window_size, axis_length, overlap) ==
    /\ g_call.op = "none"
    /\ g_call' = [op |-> "layout", window_size |-> window_size,
                  axis_length |-> axis_length, overlap |-> overlap]
    /\ g_out' = calculate_layout_parameters(window_size, axis_length, overlap)
    /\ UNCHANGED <<varsInstr, vars35, varsPlate, varsDish>>

\* Circular wells (center, radius), windows and candidate centers handed to
\* WellCircleGrid._is_rectangle_within_circle, and the n_corners_in arguments.
CircleWells == {[center |-> <<RInt(0), RInt(0)>>, radius |-> RInt(5)],
                [center |-> <<RInt(1), RInt(-1)>>, radius |-> RInt(10)]}
CircleWindows == {<<RInt(2), RInt(2)>>, <<RInt(2), RInt(4)>>}
CandidateCoords == {RInt(n) : n \in (-6)..6}
CornerArgs == {<<>>, <<1>>, <<2>>, <<3>>, <<4>>}

\* unpack_well_properties, then _is_rectangle_within_circle((x, y), self.n_corners_in)
WithinCircleCall(well, window_size, x, y, n_corners_in) ==
    /\ g_call.op = "none"
    /\ g_call' = [op |-> "within_circle", center |-> well.center, radius |-> well.radius,
                  window_size |-> window_size, rect_coord |-> <<x, y>>,
                  n_corners_in |-> n_corners_in]
    /\ g_out' = [accepted |-> is_rectangle_within_circle(well.center, well.radius,
                     window_size, <<x, y>>, unpack_n_corners_in(n_corners_in))]
    /\ UNCHANGED <<varsInstr, vars35, varsPlate, varsDish>>

\* Arguments of _configure_grid_instance and the instrument's settings.
PixelOffsets == {<<0, 0>>, <<4, 6>>, <<0, 6>>, <<-3, 5>>}
Binnings == {1, 2}
Objectives == {"10x", "20x"}

\* Candidate coordinates per axis handed to _build_well_grid.
CoordLists == {<<RInt(0), RInt(10), RInt(20)>>, <<RInt(1), RInt(2)>>,
               <<RInt(-4), RInt(-2), RInt(0), RInt(2), RInt(4)>>}

\* WellGridManager._configure_grid_instance(a1_manager, window_center_offset_pix,
\* dmd_window_only) on a new instance of the grid class.
ConfigureGridCall(kind, is_dmd_attached, objective, binning, offset_pix, dmd_window_only) ==
    /\ g_call.op = "none"
    /\ g_call' = [op |-> "configure", kind |-> kind, is_dmd_attached |-> is_dmd_attached,
                  objective |-> objective, binning |-> binning,
                  window_center_offset_pix |-> offset_pix,
                  dmd_window_only |-> dmd_window_only]
    /\ LET flag == update_dmd_window_flag(is_dmd_attached, dmd_window_only)
       IN  g_out' = [dmd_window_only |-> flag,
                     window_center_offset_um |->
                         adjust_center_offset(flag, objective, binning, offset_pix)]
    /\ UNCHANGED <<varsInstr, vars35, varsPlate, varsDish>>

\* _build_well_grid on the configured instance, for a circular well of center
\* (0, 0), radius 5 and a 2 x 2 window when the class is WellCircleGrid.
BuildGridCall(x_coords, y_coords, n_corners_in) ==
    /\ g_call.op = "configure"
    /\ LET inst == [kind |-> g_call.kind,
                    window_center_offset_um |-> g_out.window_center_offset_um,
                    center |-> <<RInt(0), RInt(0)>>, radius |-> RInt(5),
                    window_size |-> <<RInt(2), RInt(2)>>,
                    n_corners_in |-> unpack_n_corners_in(n_corners_in)]
           r == build_well_grid(inst, x_coords, y_coords)
       IN  /\ g_call' = [op |-> "build", inst |-> inst, config |-> g_call,
                         x_coords |-> x_coords, y_coords |-> y_coords]
           /\ g_out' = [raised |-> r.raised, well_grid |-> r.well_grid]
    /\ UNCHANGED <<varsInstr, vars35, varsPlate, varsDish>>

\* Largest grid handed to randomise_fov.
MaxGridPoints == 3

\* A grid as _build_well_grid returns it: m points under the keys 0..m-1.
GridOfSize(m) == [k \in 0..(m - 1) |-> [xy |-> <<RInt(10 * (k \div 2)), RInt(5 * (k % 2))>>]]

\* randomise_fov(well_grid, numb_field_view) for a requested count of at least 1.
RandomiseFovCall(m, numb_field_view) ==
    /\ g_call.op = "none"
    /\ g_call' = [op |-> "randomise_fov", well_grid |-> GridOfSize(m),
                  numb_field_view |-> numb_field_view]
    /\ g_out' \in randomise_fov(GridOfSize(m), numb_field_view)
    /\ UNCHANGED <<varsInstr, vars35, varsPlate, varsDish>>

----------------------------------------------------------------------------
(* well_grid/well_square.py, well_grid/well_circle.py: the candidate centers *)

\* np.linspace(start, stop, num).tolist() for num >= 0.
linspace(start, stop, num) ==
    IF num = 0 THEN <<>>
    ELSE IF num = 1 THEN <<start>>
    ELSE [i \in 1..num |->
             RAdd(start, RDiv(RMul(RInt(i - 1), RSub(stop, start)), RInt(num - 1)))]

RAbs(a) == IF a[1] < 0 THEN <<-a[1], a[2]>> ELSE a

Range(s) == {s[i] : i \in DOMAIN s}

\* WellSquareGrid.unpack_well_properties: self.y_tl, self.x_tl = topleft, and
\* the same for bottomright.
WellSquareGrid_unpack_well_properties(well_measurments) ==
    LET y_tl == well_measurments.top_left[1]
        x_tl == well_measurments.top_left[2]
        y_br == well_measurments.bottom_right[1]
        x_br == well_measurments.bottom_right[2]
    IN  [y_tl |-> y_tl, x_tl |-> x_tl, y_br |-> y_br, x_br |-> x_br,
         well_width |-> RAbs(RSub(y_br, y_tl)),
         well_length |-> RAbs(RSub(x_br, x_tl))]

\* WellSquareGrid.generate_coordinates_per_axis: returns (y_coords, x_coords).
WellSquareGrid_generate_coordinates_per_axis(self, window_size, num_rects, align_correction) ==
    LET half(k) == RDiv(window_size[k], RInt(2))
        y_start == RAdd(RAdd(self.y_tl, half(1)), align_correction[1])
        y_end == RSub(RSub(self.y_br, half(1)), align_correction[1])
        x_start == RSub(RSub(self.x_tl, align_correction[2]), half(2))
        x_end == RAdd(RAdd(self.x_br, align_correction[2]), half(2))
        y_coords == linspace(y_start, y_end, num_rects[1])
        x_coords == linspace(x_start, x_end, num_rects[2])
    IN  <<y_coords, x_coords>>

\* WellCircleGrid.generate_coordinates_per_axis: returns (x_coords, y_coords).
WellCircleGrid_generate_coordinates_per_axis(self, window_size, num_rects, align_correction) ==
    LET half(k) == RDiv(window_size[k], RInt(2))
        x_start == RAdd(RAdd(RSub(self.center[1], self.radius), align_correction[1]), half(1))
        x_end == RSub(RSub(RAdd(self.center[1], self.radius), align_correction[1]), half(1))
        y_start == RSub(RSub(RAdd(self.center[2], self.radius), align_correction[2]), half(2))
        y_end == RAdd(RAdd(RSub(self.center[2], self.radius), align_correction[2]), half(2))
        y_coords == linspace(y_start, y_end, num_rects[2])
        x_coords == linspace(x_start, x_end, num_rects[1])
    IN  <<x_coords, y_coords>>

\* WellGridManager.axis_length: (2 * radius, 2 * radius) with a radius,
\* (well_width, well_length) otherwise.
WellGridManager_axis_length(self, has_radius) ==
    IF has_radius
    THEN <<RMul(RInt(2), self.radius), RMul(RInt(2), self.radius)>>
    ELSE <<self.well_width, self.well_length>>

\* create_well_grid up to "x_coord, y_coord = self._generate_coordinates_per_axis()".
candidate_centers(kind, self, window_size, overlap) ==
    LET layout == calculate_layout_parameters(window_size,
                      WellGridManager_axis_length(self, kind = "WellCircleGrid"), overlap)
    IN  IF layout.raised # None
        THEN [raised |-> layout.raised]
        ELSE LET coords ==
                     IF kind = "WellCircleGrid"
                     THEN WellCircleGrid_generate_coordinates_per_axis(
                              self, window_size, layout.num_rects, layout.align_correction)
                     ELSE WellSquareGrid_generate_coordinates_per_axis(
                              self, window_size, layout.num_rects, layout.align_correction)
             IN  [raised |-> None, x_coord |-> coords[1], y_coord |-> coords[2],
                  num_rects |-> layout.num_rects]

\* Windows and overlap arguments of create_well_grid, in micron.
TileWindows == {<<RInt(2000), RInt(2000)>>, <<RInt(3000), RInt(2000)>>,
                <<RInt(2500), RInt(1500)>>, <<RInt(10000), RInt(10000)>>}
TileOverlaps == {NoOverlap, RInt(0), <<1, 10>>}

\* Circular wells as the 35 mm and 96-well calibrators store them.
TileCircleWells == {[center |-> <<RInt(0), RInt(0)>>, radius |-> RInt(5000)],
                    [center |-> <<RInt(-9000), RInt(4500)>>, radius |-> RInt(3200)],
                    [center |-> <<RInt(100), RInt(-100)>>, radius |-> <<10500, 1>>]}

\* Positions the operator confirms as the center of well A1 of the slide.
TileSlideCenters == {<<RInt(0), RInt(0)>>, <<RInt(20000), RInt(-5000)>>}

\* create_well_grid of WellCircleGrid on a calibrated circular well.
TileCircleCall(well, window_size, overlap) ==
    /\ g_call.op = "none"
    /\ g_call' = [op |-> "tile_circle", center |-> well.center, radius |-> well.radius,
                  window_size |-> window_size, overlap |-> overlap]
    /\ g_out' = candidate_centers("WellCircleGrid", well, window_size, overlap)
    /\ UNCHANGED <<varsInstr, vars35, varsPlate, varsDish>>

\* create_well_grid of WellSquareGrid on a well of DishIbidi._calibrate_dish.
TileSquareCall(ref, name, window_size, overlap) ==
    /\ g_call.op = "none"
    /\ name \in DOMAIN DishIbidi_calibrate(ref)
    /\ LET well == DishIbidi_calibrate(ref)[name]
       IN  /\ g_call' = [op |-> "tile_square", top_left |-> well.top_left,
                         bottom_right |-> well.bottom_right,
                         window_size |-> window_size, overlap |-> overlap]
           /\ g_out' = candidate_centers("WellSquareGrid",
                           WellSquareGrid_unpack_well_properties(well), window_size, overlap)
    /\ UNCHANGED <<varsInstr, vars35, varsPlate, varsDish>>

----------------------------------------------------------------------------
(* utils/json_utils.py: encode_dataclass, decode_dataclass, load_config_file, *)
(* save_config_file; utils/utility_classes.py: the dataclasses               *)

\* Python values: numbers, strings, tuples, lists, dataclass instances. The keys
\* of a dict are values [k, repr]: the type of the key and str(key).
PyNum(n) == [py |-> "int", v |-> n]
PyStr(str) == [py |-> "str", s |-> str]
PyTuple(items) == [py |-> "tuple", items |-> items]
PyList(items) == [py |-> "list", items |-> items]
PyObj(cls, fields) == [py |-> cls, fields |-> fields]
StrKey(str) == [k |-> "str", repr |-> str]
IntKey(n) == [k |-> "int", repr |-> ToString(n)]

\* The fields of the dataclasses with their defaults.
DataclassFields ==
    [StageCoord |-> [xy |-> PyTuple(<<PyNone, PyNone>>), ZDrive |-> PyNone,
                     PFSOffset |-> PyNone],
     WellCircleCoord |-> [ZDrive |-> PyNone, PFSOffset |-> PyNone, center |-> PyNone,
                          radius |-> PyNone],
     WellSquareCoord |-> [ZDrive |-> PyNone, PFSOffset |-> PyNone, top_left |-> PyNone,
                          bottom_right |-> PyNone]]

\* cls(**data): the keys of data are field names (TypeError for any other key),
\* the fields not given take their defaults.
dataclass_init(cls, data) ==
    LET given == {key.repr : key \in DOMAIN data}
    IN  IF given \subseteq DOMAIN DataclassFields[cls]
        THEN PyObj(cls, [f \in DOMAIN DataclassFields[cls] |->
                            IF f \in given THEN data[StrKey(f)]
                            ELSE DataclassFields[cls][f]])
        ELSE [py |-> "raised", raised |-> "TypeError"]

\* dataclasses.asdict(obj) for an instance whose fields hold None, numbers and
\* tuples of numbers: the dict of the fields, tuples kept as tuples.
asdict(obj) == [key \in {StrKey(f) : f \in DOMAIN obj.fields} |-> obj.fields[key.repr]]

\* encode_dataclass(obj) for an object json cannot serialise itself.
encode_dataclass(obj) ==
    PyDict((StrKey("__class__") :> PyStr(obj.py)) @@ asdict(obj))

\* JSON text, as the value it denotes.
JNull == [js |-> "null"]

\* json.dump(data, outfile, default=encode_dataclass): tuples and lists become
\* arrays, the keys of a dict become strings, an instance of a dataclass goes
\* through default.
RECURSIVE json_dump(_)
json_dump(obj) ==
    CASE obj.py = "None" -> JNull
      [] obj.py = "int" -> [js |-> "number", v |-> obj.v]
      [] obj.py = "str" -> [js |-> "string", s |-> obj.s]
      [] obj.py \in {"tuple", "list"} ->
            [js |-> "array", items |-> [i \in DOMAIN obj.items |-> json_dump(obj.items[i])]]
      [] obj.py = "dict" ->
            [js |-> "object",
             members |-> [name \in {key.repr : key \in DOMAIN obj.items} |->
                             json_dump(obj.items[CHOOSE key \in DOMAIN obj.items :
                                                     key.repr = name])]]
      [] OTHER -> json_dump(encode_dataclass(obj))

\* save_config_file(file_path, data): the file holds the JSON text of data.
save_config_file_json(data) == json_dump(data)

\* decode_dataclass(data), the object_hook.
decode_dataclass(data) ==
    IF StrKey("__class__") \in DOMAIN data.items
    THEN LET cls_name == data.items[StrKey("__class__")].s
             rest == [key \in DOMAIN data.items \ {StrKey("__class__")} |->
                         IF data.items[key].py = "list"
                         THEN PyTuple(data.items[key].items)
                         ELSE data.items[key]]
         IN  IF cls_name \in DOMAIN DataclassFields
             THEN dataclass_init(cls_name, rest)
             ELSE PyDict(rest)
    ELSE data

\* json.load(f, object_hook=decode_dataclass): arrays become lists, the keys of an
\* object are strings, every object goes through the hook.
RECURSIVE json_load(_)
json_load(text) ==
    CASE text.js = "null" -> PyNone
      [] text.js = "number" -> PyNum(text.v)
      [] text.js = "string" -> PyStr(text.s)
      [] text.js = "array" ->
            PyList([i \in DOMAIN text.items |-> json_load(text.items[i])])
      [] text.js = "object" ->
            decode_dataclass(PyDict([key \in {StrKey(name) : name \in DOMAIN text.members} |->
                                        json_load(text.members[key.repr])]))

\* The conversion of one value of the loaded map in load_config_file: a plain
\* dict with coordinate keys (legacy format) becomes a dataclass, anything else
\* is kept.
convert_legacy(well_data) ==
    IF well_data.py # "dict" THEN well_data
    ELSE LET has(name) == StrKey(name) \in DOMAIN well_data.items
             filtered(cls, tuple_keys) ==
                 [key \in {k0 \in DOMAIN well_data.items :
                              k0.repr \in DOMAIN DataclassFields[cls]} |->
                     IF key.repr \in tuple_keys /\ well_data.items[key].py = "list"
                     THEN PyTuple(well_data.items[key].items)
                     ELSE well_data.items[key]]
             is_coordinate_data ==
                 \/ has("radius") /\ has("center")
                 \/ has("top_left") \/ has("bottom_right")
                 \/ has("ZDrive") \/ has("PFSOffset")
                 \/ has("xy") \/ has("z")
         IN  IF ~is_coordinate_data THEN well_data
             ELSE IF has("radius") /\ has("center")
                  THEN dataclass_init("WellCircleCoord",
                                      filtered("WellCircleCoord", {"center"}))
             ELSE IF has("xy") \/ has("z")
                  THEN dataclass_init("StageCoord", filtered("StageCoord", {"xy"}))
             ELSE dataclass_init("WellSquareCoord",
                                 filtered("WellSquareCoord", {"top_left", "bottom_right"}))

\* load_config_file(file) for the path of a file holding the JSON text of a map.
load_config_file(text) ==
    LET raw_data == json_load(text)
    IN  IF raw_data = PyNone THEN PyNone
        ELSE PyDict([well_name \in DOMAIN raw_data.items |->
                        convert_legacy(raw_data.items[well_name])])

\* Values of the persisted maps.
JsonFocus(v) == IF v = 0 THEN PyNone ELSE PyNum(v)
JsonPoint(p) == PyTuple(<<PyNum(p[1]), PyNum(p[2])>>)
JsonCircleWells ==
    {PyObj("WellCircleCoord", [ZDrive |-> JsonFocus(z), PFSOffset |-> JsonFocus(f),
                               center |-> JsonPoint(c), radius |-> PyNum(5)]) :
        z \in {0, 1}, f \in {0, 2}, c \in {<<0, 0>>, <<3, -4>>}}
JsonSquareWells ==
    {PyObj("WellSquareCoord", [ZDrive |-> JsonFocus(z), PFSOffset |-> JsonFocus(f),
                               top_left |-> JsonPoint(<<1, 0>>),
                               bottom_right |-> JsonPoint(<<0, 1>>)]) :
        z \in {0, 1}, f \in {0, 2}}
JsonStageCoords ==
    {PyObj("StageCoord", [xy |-> JsonPoint(c), ZDrive |-> JsonFocus(z),
                          PFSOffset |-> PyNone]) :
        c \in {<<0, 0>>, <<1, 0>>}, z \in {0, 1}}

\* Largest number of points in a persisted grid.
MaxJsonPoints == 2

\* Calibration maps: region name -> well; one or two regions of one dish.
CalibrationMaps ==
    LET Maps(wells) == {PyDict([key \in {StrKey(n) : n \in names} |-> well[key.repr]]) :
                           names \in {{"A1"}, {"A1", "B2"}},
                           well \in [{"A1", "B2"} -> wells]}
    IN  Maps(JsonCircleWells) \cup Maps(JsonSquareWells)

\* Grid maps: region name -> {index -> StageCoord}, the indices 0 .. n-1.
GridMaps ==
    {PyDict((StrKey("A1") :>
                PyDict([key \in {IntKey(i) : i \in 0..(n - 1)} |->
                           points[CHOOSE i \in 0..(n - 1) : IntKey(i) = key]]))) :
        n \in 0..MaxJsonPoints, points \in [0..(MaxJsonPoints - 1) -> JsonStageCoords]}

\* Maps in the legacy format: the wells are plain dicts.
LegacyMaps ==
    {PyDict((StrKey("A1") :>
                PyDict((StrKey("radius") :> PyNum(5)) @@
                       (StrKey("center") :> PyList(<<PyNum(0), PyNum(c)>>)) @@
                       (StrKey("ZDrive") :> PyNone) @@ (StrKey("PFSOffset") :> PyNone)))) :
        c \in {0, 1}}

\* save_config_file(file_path, data)
SaveConfigFile(kind, data) ==
    /\ g_call.op = "none"
    /\ g_call' = [op |-> "save_config_file", kind |-> kind, data |-> data]
    /\ g_out' = [file |-> save_config_file_json(data)]
    /\ UNCHANGED <<varsInstr, vars35, varsPlate, varsDish>>

\* load_config_file(file_path) on the file just written.
LoadConfigFile ==
    /\ g_call.op = "save_config_file"
    /\ g_call' = [g_call EXCEPT !.op = "load_config_file"]
    /\ g_out' = [file |-> g_out.file, loaded |-> load_config_file(g_out.file)]
    /\ UNCHANGED <<varsInstr, vars35, varsPlate, varsDish>>

----------------------------------------------------------------------------
(* The DMD calibration and the DMD masks as operations *)

\* Largest number of calibration points asked for.
MaxPoints == 6

\* What load_config_file('transfo_matrix') can return: None without a file, or the
\* matrices on file by filter-turret label.
TransfoFiles ==
    {PyNone} \cup {PyDict([l \in labels |-> PyMatrix(l)]) :
                      labels \in SUBSET (LIST_TURRETS \cup {"1-Empty"})}

IdleDmd ==
    /\ dmd_label = None
    /\ dmd_transfo = PyNone
    /\ dmd_points = [set |-> FALSE]
    /\ dmd_call = [op |-> "none"]
    /\ dmd_out = <<>>
    /\ dmd_log = <<>>


\* DMDMask.__init__ with any transform file, any turret position.
InitDmd ==
    /\ dmd_label \in LIST_TURRETS
    /\ dmd_transfo \in TransfoFiles
    /\ dmd_points = [set |-> FALSE]
    /\ dmd_call = [op |-> "none"]
    /\ dmd_out = <<>>
    /\ dmd_log = <<>>

\* core.set_property('FilterTurret1', 'Label', label)
SetTurretLabel(label) ==
    /\ dmd_label' = label
    /\ dmd_call' = [op |-> "set_property", label |-> label]
    /\ dmd_out' = [raised |-> None]
    /\ dmd_log' = <<>>
    /\ UNCHANGED <<dmd_transfo, dmd_points, varsAf, varsLight, varsCore>>

\* CalibrateFTurret.create_dmd_point_list(a1_manager, numb_points)
CreateDmdPointList(numb_points) ==
    LET r == generate_random_points(numb_points)
    IN  /\ dmd_call' = [op |-> "create_dmd_point_list", numb_points |-> numb_points]
        /\ dmd_out' = [raised |-> r.raised]
        /\ dmd_points' = IF r.raised = None
                         THEN [set |-> TRUE, list |-> r.points, numb_points |-> numb_points]
                         ELSE dmd_points
        /\ dmd_log' = <<>>
        /\ UNCHANGED <<dmd_label, dmd_transfo, varsAf, varsLight, varsCore>>

\* CalibrateFTurret.get_transformation_matrix(a1_manager); dmd_points_list is a
\* field without default, unset until create_dmd_point_list succeeds.
GetTransformationMatrix ==
    /\ dmd_call' = [op |-> "get_transformation_matrix"]
    /\ IF ~dmd_points.set
       THEN /\ dmd_out' = [raised |-> "AttributeError"]
            /\ dmd_log' = <<>>
       ELSE LET r == get_transformation_matrix(dmd_points.list)
            IN  /\ dmd_out' = [raised |-> None, matrix |-> r.matrix]
                /\ dmd_log' = r.log
    /\ UNCHANGED <<dmd_label, dmd_transfo, dmd_points, varsAf, varsLight, varsCore>>

\* Dmd.load_dmd_mask(input_mask, transform_mask) for a mask array: custom_mask,
\* then the projection of the mask it returns.
LoadDmdMask(transform_mask) ==
    LET r == custom_mask(dmd_transfo, dmd_label, transform_mask)
    IN  /\ dmd_call' = [op |-> "load_dmd_mask", transform_mask |-> transform_mask]
        /\ dmd_out' = [raised |-> r.raised]
        /\ dmd_log' = IF r.raised = None
                      THEN Append(r.log, [event |-> "project_mask"])
                      ELSE r.log
        /\ UNCHANGED <<dmd_label, dmd_transfo, dmd_points, varsAf, varsLight, varsCore>>

\* LIST_TURRETS in the order of the list.
LIST_TURRETS_order == <<"5-Duo", "4-Quad">>

\* What load_config_file('dmd_profile') can return: None, or the profiles on file
\* by filter-turret label (the profile of label l is named l).
ProfileFiles == {PyNone} \cup {PyDict([l \in labels |-> l]) : labels \in SUBSET LIST_TURRETS}

\* ndarray.tolist(): the elements of the array as nested lists.
tolist(ndarray) == PyMatrix(ndarray.kind)

keeps_matrix_ignoring_overwrite(transfo_matrix, fTurret, overwrite) ==
    fTurret \in DOMAIN transfo_matrix.items

\* dmd_calibration: "if dmd_fTurret.fTurret in transfo_matrix and not overwrite"
keeps_matrix(transfo_matrix, fTurret, overwrite) ==
    fTurret \in DOMAIN transfo_matrix.items /\ ~overwrite

\* dmd_calibration(run_dir, numb_points, overwrite) up to the for loop: the
\* A1Manager with its DMDMask is built, one CalibrateFTurret per turret (its
\* __post_init__ reads dmd_profile[self.fTurret] when the profile file exists),
\* and the two dicts are loaded or created empty.
DmdCalibrationStart(numb_points, overwrite, dmd_profile) ==
    /\ dmd_call.op # "dmd_calibration"
    /\ dmd_call' = [op |-> "dmd_calibration", numb_points |-> numb_points,
                    overwrite |-> overwrite, dmd_profile |-> dmd_profile,
                    file |-> dmd_transfo]
    /\ LET KeyError == /\ dmd_profile # PyNone
                       /\ \E l \in LIST_TURRETS : l \notin DOMAIN dmd_profile.items
       IN  dmd_out' = [pc |-> IF KeyError THEN "raised" ELSE "loop",
                       raised |-> IF KeyError THEN "KeyError" ELSE None,
                       idx |-> 0,
                       transfo_matrix |-> IF dmd_transfo = PyNone THEN PyDict(<<>>)
                                          ELSE dmd_transfo,
                       file |-> dmd_transfo]
    /\ dmd_log' = <<>>
    /\ dmd_points' = [set |-> FALSE]
    /\ UNCHANGED <<dmd_label, dmd_transfo, varsAf, varsLight, varsCore>>

\* One iteration of the for loop of dmd_calibration. transfo_matrix is the dict
\* of the DMDMask itself when the transform file existed, a new dict otherwise.
DmdCalibrationTurret ==
    /\ dmd_call.op = "dmd_calibration"
    /\ dmd_out.pc = "loop"
    /\ dmd_out.idx < Len(LIST_TURRETS_order)
    /\ LET fTurret == LIST_TURRETS_order[dmd_out.idx + 1]
           points == generate_random_points(dmd_call.numb_points)
           old == dmd_out.transfo_matrix
           matrix == tolist(get_transformation_matrix(points.points).matrix)
           new == PyDict((fTurret :> matrix) @@ old.items)
           shared(d) == IF dmd_transfo = PyNone THEN PyNone ELSE d
       IN  /\ dmd_label' = fTurret
           /\ IF points.raised # None
              THEN /\ dmd_out' = [dmd_out EXCEPT !.pc = "raised", !.raised = points.raised]
                   /\ UNCHANGED <<dmd_log, dmd_points, dmd_transfo>>
              ELSE /\ dmd_points' = [set |-> TRUE, list |-> points.points,
                                     numb_points |-> dmd_call.numb_points]
                   /\ IF keeps_matrix(old, fTurret, dmd_call.overwrite)
                      THEN LET test == apply_affine_transform(dmd_transfo, fTurret, PyNone)
                           IN  /\ dmd_out' = [dmd_out EXCEPT
                                                 !.idx = @ + 1,
                                                 !.pc = IF test.raised = None THEN "loop"
                                                        ELSE "raised",
                                                 !.raised = test.raised]
                               /\ dmd_log' = Append(dmd_log,
                                                 [event |-> "test", label |-> fTurret])
                               /\ UNCHANGED dmd_transfo
                      ELSE LET test == apply_affine_transform(shared(new), fTurret, new)
                           IN  /\ dmd_out' = [dmd_out EXCEPT
                                                 !.idx = @ + 1,
                                                 !.transfo_matrix = new,
                                                 !.pc = IF test.raised = None THEN "loop"
                                                        ELSE "raised",
                                                 !.raised = test.raised]
                               /\ dmd_log' = dmd_log \o
                                                <<[event |-> "create", label |-> fTurret],
                                                  [event |-> "test", label |-> fTurret]>>
                               /\ dmd_transfo' = shared(new)
    /\ UNCHANGED <<dmd_call, varsAf, varsLight, varsCore>>

\* After the loop: the two dicts are written in full, then
\* dmd_mask.reload_transfo_matrix() is called, a name DMDMask does not have
\* (its method is reload_transformation_matrix).
DmdCalibrationSave ==
    /\ dmd_call.op = "dmd_calibration"
    /\ dmd_out.pc = "loop"
    /\ dmd_out.idx = Len(LIST_TURRETS_order)
    /\ dmd_out' = [dmd_out EXCEPT !.pc = "raised", !.raised = "AttributeError",
                                  !.file = dmd_out.transfo_matrix]
    /\ UNCHANGED <<dmd_call, dmd_label, dmd_transfo, dmd_points, dmd_log,
                   varsAf, varsLight, varsCore>>

\* CalibrateFTurret.generate_random_points(window_size, window_start, numb_points)
\* as a loop: the two lists, one random draw per iteration.
\* np.random.randint(low, high) draws from low .. high - 1 and raises ValueError
\* when low >= high.
randint(low, high) == low..(high - 1)

\* The boundaries of the draws: minX, maxX = 40, dmd_width - 39 and the same in y.
point_bounds(window_size) ==
    [minX |-> 40, maxX |-> window_size[2] - 39, minY |-> 40, maxY |-> window_size[1] - 39]

\* "if x not in x_points and y not in y_points"
point_accepted(x_points, y_points, x, y) ==
    x \notin Range(x_points) /\ y \notin Range(y_points)

\* The calls explored: (height, width) of the window, its start (x, y), the count.
PointCounts == {0, 3, 4}
PointCalls ==
    {[window_size |-> <<82, 120>>, window_start |-> <<0, 0>>, numb_points |-> n] :
        n \in PointCounts}
    \cup {[window_size |-> w, window_start |-> st, numb_points |-> n] :
            w \in {<<82, 82>>, <<81, 90>>, <<60, 200>>}, st \in {<<0, 0>>, <<5, 7>>},
            n \in PointCounts}

GenerateRandomPointsStart(call) ==
    /\ dmd_call.op = "none"
    /\ dmd_call' = [op |-> "generate_random_points", window_size |-> call.window_size,
                    window_start |-> call.window_start, numb_points |-> call.numb_points]
    /\ dmd_out' = IF call.numb_points % 3 # 0
                  THEN [pc |-> "raised", raised |-> "ValueError",
                        x_points |-> <<>>, y_points |-> <<>>]
                  ELSE [pc |-> "loop", raised |-> None, x_points |-> <<>>, y_points |-> <<>>]
    /\ UNCHANGED <<dmd_label, dmd_transfo, dmd_points, dmd_log, varsAf, varsLight, varsCore>>

\* One iteration of "while count < numb_points" with the draws rx and ry (an
\* iteration whose draw is rejected leaves the lists as they are).
DrawPoint ==
    /\ dmd_call.op = "generate_random_points"
    /\ dmd_out.pc = "loop"
    /\ Len(dmd_out.x_points) < dmd_call.numb_points
    /\ LET b == point_bounds(dmd_call.window_size)
       IN  IF randint(b.minX, b.maxX) = {} \/ randint(b.minY, b.maxY) = {}
           THEN dmd_out' = [dmd_out EXCEPT !.pc = "raised", !.raised = "ValueError"]
           ELSE \E rx \in randint(b.minX, b.maxX), ry \in randint(b.minY, b.maxY) :
                   LET x == dmd_call.window_start[1] + rx
                       y == dmd_call.window_start[2] + ry
                   IN  dmd_out' =
                           IF point_accepted(dmd_out.x_points, dmd_out.y_points, x, y)
                           THEN [dmd_out EXCEPT !.x_points = Append(@, x),
                                                !.y_points = Append(@, y)]
                           ELSE dmd_out
    /\ UNCHANGED <<dmd_call, dmd_label, dmd_transfo, dmd_points, dmd_log,
                   varsAf, varsLight, varsCore>>

\* The loop ends: return [(y, x) for y, x in zip(y_points, x_points)].
ReturnPoints ==
    /\ dmd_call.op = "generate_random_points"
    /\ dmd_out.pc = "loop"
    /\ Len(dmd_out.x_points) >= dmd_call.numb_points
    /\ dmd_out' = [dmd_out EXCEPT !.pc = "returned"]
    /\ dmd_points' = [set |-> TRUE,
                      list |-> [k \in DOMAIN dmd_out.x_points |->
                                   <<dmd_out.y_points[k], dmd_out.x_points[k]>>],
                      numb_points |-> dmd_call.numb_points]
    /\ UNCHANGED <<dmd_call, dmd_label, dmd_transfo, dmd_log, varsAf, varsLight, varsCore>>

\* DMD_Point.create_mask_from_coordinate: disk(point_centroid, radius=10) marks
\* the pixels at distance < 10 of the point. Two marks whose centers differ by
\* (dy, dx) share a pixel:
MarkRadius == 10
MarkPixels == {p \in ((-MarkRadius)..MarkRadius) \X ((-MarkRadius)..MarkRadius) :
                  p[1] * p[1] + p[2] * p[2] < MarkRadius * MarkRadius}
MarksIntersect ==
    [d \in (0..3) \X (0..45) |->
        \E p \in MarkPixels :
            (p[1] - d[1]) * (p[1] - d[1]) + (p[2] - d[2]) * (p[2] - d[2])
                < MarkRadius * MarkRadius]
marks_intersect(p, q) ==
    LET dy == Abs(p[1] - q[1])
        dx == Abs(p[2] - q[2])
    IN  IF <<dy, dx>> \in DOMAIN MarksIntersect THEN MarksIntersect[<<dy, dx>>]
        ELSE dy < 2 * MarkRadius /\ dx < 2 * MarkRadius

----------------------------------------------------------------------------
(* run_autofocus and launch_dish_workflow as operations *)

\* Largest number of restarts the operator asks for in one run.
MaxRestarts == 2

\* The positions a focus search can return.
FocusValues == {1, 2}

\* The calibration files run_autofocus can find: every well with its center, the
\* focus of the active device absent or 0 from an earlier run.
CalibFiles(focus_device) ==
    {[w \in AfWells |-> [center |-> AfCenter[w],
                         focus |-> [d \in FocusDevices |->
                                       IF d = focus_device /\ w \in done THEN <<0>>
                                       ELSE NoFocus]]] : done \in SUBSET AfWells}

IdleAf ==
    /\ af_pc = "idle"
    /\ af_args = [entry |-> "none"]
    /\ af_sorted = <<>>
    /\ af_idx = 0
    /\ af_meas = <<>>
    /\ af_file = <<>>
    /\ af_focus = NoFocus
    /\ af_log = <<>>
    /\ af_raised = None
    /\ wf_out = <<>>

\* run_autofocus up to the for loop, called directly or by launch_dish_workflow
\* through DishManager.autofocus_dish once calibrate_dish has returned.
RunAutofocusStart(entry, method, overwrite, focus_device, file) ==
    /\ af_pc = "idle"
    /\ af_args' = [entry |-> entry, method |-> method, overwrite |-> overwrite,
                   focus_device |-> focus_device, file |-> file]
    /\ af_file' = file
    /\ af_meas' = file
    /\ af_sorted' = snake_sort_wells(file)
    /\ af_idx' = 0
    /\ af_pc' = "loop"
    /\ UNCHANGED <<af_focus, af_log, af_raised, wf_out, varsDmd, varsLight, varsCore>>

\* launch_dish_workflow when DishManager.calibrate_dish raises.
LaunchCalibrateRaises ==
    /\ af_pc = "idle"
    /\ af_args' = [entry |-> "launch_dish_workflow"]
    /\ af_pc' = "raised"
    /\ wf_out' = [raised |-> "ValueError"]
    /\ UNCHANGED <<af_sorted, af_idx, af_meas, af_file, af_focus, af_log, af_raised,
                   varsDmd, varsLight, varsCore>>

\* The head of the for loop: the end of the list, a skipped well, or the call of
\* _focus_one_well.
ForLoop ==
    /\ af_pc = "loop"
    /\ IF af_idx >= Len(af_sorted)
       THEN af_pc' = "returned" /\ af_idx' = af_idx
       ELSE IF SkipWell(af_meas[af_sorted[af_idx + 1]], af_args.focus_device,
                        af_args.overwrite)
            THEN af_pc' = "loop" /\ af_idx' = af_idx + 1
            ELSE af_pc' = "well" /\ af_idx' = af_idx
    /\ UNCHANGED <<af_args, af_sorted, af_meas, af_file, af_focus, af_log, af_raised,
                   wf_out, varsDmd, varsLight, varsCore>>

\* The end of an iteration: measurement[focus_device] = focus, save_config_file.
WellDone(well, focus, log) ==
    LET meas == SetFocus(af_meas, well, af_args.focus_device, focus)
    IN  /\ af_meas' = meas
        /\ af_file' = save_config_file(af_file, meas, af_idx + 1 >= Len(af_sorted))
        /\ af_log' = log \o <<[ev |-> "done", well |-> well, focus |-> focus]>>
        /\ af_idx' = af_idx + 1
        /\ af_pc' = "loop"
        /\ af_focus' = NoFocus

\* One pass of the while loop of _focus_one_well up to the review or the return.
FocusOneWell(focus) ==
    /\ af_pc = "well"
    /\ LET well == af_sorted[af_idx + 1]
           log == af_log
                  \o (IF NoStageMove(af_idx, af_args.method) THEN <<>>
                      ELSE <<Event("move", well)>>)
                  \o <<Event("focus", well)>>
       IN  IF af_idx = 0
           THEN /\ af_pc' = "review"
                /\ af_focus' = <<focus>>
                /\ af_log' = log \o <<Event("review", well)>>
                /\ UNCHANGED <<af_idx, af_meas, af_file>>
           ELSE WellDone(well, <<focus>>, log)
    /\ UNCHANGED <<af_args, af_sorted, af_raised, wf_out, varsDmd, varsLight, varsCore>>

\* The operator's answer in _autofocus_review.
AutofocusReview(answer) ==
    /\ af_pc = "review"
    /\ LET well == af_sorted[af_idx + 1]
       IN  \/ /\ answer = "continue"
              /\ WellDone(well, af_focus, af_log)
              /\ UNCHANGED af_raised
           \/ /\ answer = "restart"
              /\ Cardinality({k \in 1..Len(af_log) : af_log[k].ev = "restart"}) < MaxRestarts
              /\ af_log' = af_log \o <<Event("restart", well)>>
              /\ af_pc' = after_restart(af_idx).pc
              /\ af_idx' = after_restart(af_idx).idx
              /\ af_focus' = NoFocus
              /\ UNCHANGED <<af_meas, af_file, af_raised>>
           \/ /\ answer = "quit"
              /\ af_log' = af_log \o <<Event("quit", well)>>
              /\ af_pc' = "raised"
              /\ af_raised' = "QuitAutofocus"
              /\ af_focus' = NoFocus
              /\ UNCHANGED <<af_idx, af_meas, af_file>>
    /\ UNCHANGED <<af_args, af_sorted, wf_out, varsDmd, varsLight, varsCore>>

\* WellBaseCoord.get_template_point_coord: a StageCoord without xy that carries the
\* focus values of the well.
get_template_point_coord(measurement) ==
    [xy |-> <<>>, ZDrive |-> measurement.focus["ZDrive"],
     PFSOffset |-> measurement.focus["PFSOffset"]]

\* DishManager.create_well_grids over self.dish_calibration: per well, the points
\* of create_well_grid are copies of the well's template point with their xy (two
\* points per well here; the layout of the points is the matter of SpecGrid).
create_well_grids(dish_calibration) ==
    [w \in DOMAIN dish_calibration |->
        [k \in 0..1 |-> [get_template_point_coord(dish_calibration[w]) EXCEPT
                            !.xy = <<dish_calibration[w].center[1] + k,
                                     dish_calibration[w].center[2]>>]]]

\* launch_dish_workflow after autofocus_dish. self.dish_calibration of the
\* DishManager is the dict calibrate_dish returned and saved, the file run_autofocus
\* started from; run_autofocus works on its own copy loaded from the file.
\* create_well_grids calls load_subclass_instance with three of its four
\* arguments (TypeError); with the call as the signature wants it, the grids are
\* built from self.dish_calibration.
LaunchAfterAutofocus(call_matches_signature) ==
    /\ af_args.entry = "launch_dish_workflow"
    /\ af_pc \in {"returned", "raised"}
    /\ wf_out = <<>>
    /\ IF after_autofocus(af_raised) = "raise"
       THEN /\ wf_out' = [raised |-> af_raised]
            /\ UNCHANGED af_log
       ELSE /\ wf_out' = IF call_matches_signature
                         THEN [raised |-> None, grids |-> create_well_grids(af_args.file)]
                         ELSE [raised |-> "TypeError"]
            /\ af_log' = af_log \o <<Event("create_well_grids", "-")>>
    /\ UNCHANGED <<af_pc, af_args, af_sorted, af_idx, af_meas, af_file, af_focus,
                   af_raised, varsDmd, varsLight, varsCore>>

\* The calibration template of the 96-well plate in CONFIG_DIR: the wells with
\* their centers, without focus or with the focus 0 of the template's author.
Templates96well ==
    {[w \in AfWells |-> [center |-> AfCenter[w],
                         focus |-> [d \in FocusDevices |-> f]]] : f \in {NoFocus, <<0>>}}

\* DishManager.__post_init__: for '96well' the template is loaded and saved to
\* calib_path, whether or not the file exists; for the other dishes the file is
\* not touched.
DishManager_post_init(name, calib_file, template) ==
    IF name = "96well" THEN template ELSE calib_file

\* A DishManager is constructed again on the run directory after run_autofocus
\* has returned.
NewDishManager(name, template) ==
    /\ af_pc = "returned"
    /\ af_pc' = "new_manager"
    /\ dish_name' = name
    /\ af_file' = DishManager_post_init(name, af_file, template)
    /\ UNCHANGED <<af_args, af_sorted, af_idx, af_meas, af_focus, af_log, af_raised,
                   wf_out, varsDmd, varsLight, vars35, varsPlate, varsGeom,
                   class_state, dish_classes, well_classes, fac, dish_obj, files,
                   cd_calls>>

----------------------------------------------------------------------------
(* microscope_hardware/lamps: base_lamp.py Lamp, pe800.py pE800 *)

\* pE800._led_default
LEDdefault ==
    ("400" :> "A") @@ ("435" :> "B") @@ ("470" :> "C") @@ ("500" :> "D") @@
    ("740" :> "E") @@ ("635" :> "F") @@ ("580" :> "G") @@ ("550" :> "H")

\* self.LEDdefault.values()
LampChannels == {LEDdefault[l] : l \in DOMAIN LEDdefault}

\* Lamp._convert_405_to_400 on one label
convert_405_to_400(led) == IF led = "405" THEN "400" ELSE led

\* Lamp.__init__ and Lamp.clear_lamp_cache: the cache before any setting is applied.
clear_lamp_cache == [fTurret |-> -1, fWheel |-> -1, led |-> "", intensity |-> 0]

\* core.set_property(device, property, value) as one command.
set_property(device, property, value) ==
    [device |-> device, property |-> property, value |-> value]

\* The outcome of a step of preset_channel: the cache, the hardware, the commands
\* sent so far and the exception raised, None if none.
LampStep(cache, hw, cmds, raised) ==
    [cache |-> cache, hw |-> hw, cmds |-> cmds, raised |-> raised]

\* Lamp._select_filters followed by the two cache assignments of preset_channel.
select_filters(s, fTurret, fWheel) ==
    IF fTurret \notin 0..5 \/ fWheel \notin 0..6
    THEN [s EXCEPT !.raised = "ValueError"]
    ELSE LampStep([s.cache EXCEPT !.fTurret = fTurret, !.fWheel = fWheel],
                  [s.hw EXCEPT !.FilterTurret1 = fTurret, !.FilterWheel1 = fWheel],
                  s.cmds \o <<set_property("FilterTurret1", <<"State">>, fTurret),
                              set_property("FilterWheel1", <<"State">>, fWheel)>>,
                  s.raised)

\* pE800.reset_LED: every selection and the DiaLamp are switched off; the
\* commands are counted as one per channel, in the order of the dictionary.
reset_LED(s) ==
    LampStep(s.cache,
             [s.hw EXCEPT !.Selection = [c \in LampChannels |-> 0], !.DiaLamp = 0],
             s.cmds \o <<set_property("pE-800", <<"Selection", "A">>, 0),
                         set_property("pE-800", <<"Selection", "B">>, 0),
                         set_property("pE-800", <<"Selection", "C">>, 0),
                         set_property("pE-800", <<"Selection", "D">>, 0),
                         set_property("pE-800", <<"Selection", "E">>, 0),
                         set_property("pE-800", <<"Selection", "F">>, 0),
                         set_property("pE-800", <<"Selection", "G">>, 0),
                         set_property("pE-800", <<"Selection", "H">>, 0),
                         set_property("DiaLamp", <<"State">>, 0)>>,
             s.raised)

\* pE800.select_LED with pE800.validate_led_selection: the lamp is reset, the
\* label is validated, the channel of the label is switched on.
select_LED(s, led) ==
    LET r == reset_LED(s)
        label == convert_405_to_400(led)
    IN  IF label \notin DOMAIN LEDdefault
        THEN [r EXCEPT !.raised = "ValueError"]
        ELSE LampStep(r.cache,
                      [r.hw EXCEPT !.Selection[LEDdefault[label]] = 1],
                      r.cmds \o <<set_property("pE-800",
                                               <<"Selection", LEDdefault[label]>>, 1)>>,
                      r.raised)

\* Lamp._select_intensity for the pE-800; str(intensity) is carried as the number.
select_intensity(s, led, intensity) ==
    LET label == convert_405_to_400(led)
    IN  IF label \notin DOMAIN LEDdefault
        THEN [s EXCEPT !.raised = "ValueError"]
        ELSE LampStep(s.cache,
                      [s.hw EXCEPT !.Intensity[LEDdefault[label]] = intensity],
                      s.cmds \o <<set_property("pE-800",
                                               <<"Intensity", LEDdefault[label]>>,
                                               intensity)>>,
                      s.raised)

\* The 'only update LED if it has changed' block of preset_channel.  The call
\* self.reset_LED(cached_led) passes an argument reset_LED does not take
\* (TypeError); where the argument is accepted the lamp is reset, the cached
\* intensity is set to 0.0 and the new LED is selected.
preset_led(s, led, accepts_label) ==
    IF s.cache.led = led THEN s
    ELSE IF ~accepts_label THEN [s EXCEPT !.raised = "TypeError"]
    ELSE LET r == reset_LED(s)
             z == [r EXCEPT !.cache.intensity = 0]
             n == select_LED(z, led)
         IN  IF n.raised # None THEN n ELSE [n EXCEPT !.cache.led = led]

\* The 'only update intensity if it has changed' block of preset_channel.
preset_intensity(s, led, intensity_val) ==
    IF s.cache.intensity = intensity_val THEN s
    ELSE LET n == select_intensity(s, led, intensity_val)
         IN  IF n.raised # None THEN n ELSE [n EXCEPT !.cache.intensity = intensity_val]

\* Lamp.preset_channel(oc_dict, intensity) with oc_dict['intensity'] already
\* replaced by the argument.
preset_channel(cache, hw, oc_dict, accepts_label) ==
    LET s0 == LampStep(cache, hw, <<>>, None)
        s1 == IF cache.fTurret # oc_dict.fTurret \/ cache.fWheel # oc_dict.fWheel
              THEN select_filters(s0, oc_dict.fTurret, oc_dict.fWheel) ELSE s0
        s2 == IF s1.raised # None THEN s1 ELSE preset_led(s1, oc_dict.led, accepts_label)
    IN  IF s2.raised # None THEN s2
        ELSE preset_intensity(s2, oc_dict.led, oc_dict.intensity)

\* The optical configurations of the calls: valid and invalid filter positions,
\* LED labels of the pE-800, 405 (converted to 400) and an unknown label.
OpticalConfigurations ==
    [fTurret : {1, 7}, fWheel : {0, 2}, led : {"470", "550", "405", "999"},
     intensity : {0, 50}]

NoRequest == [fTurret |-> None]

NoLamp == [pc |-> "none"]

\* The hardware when the lamp object is built: filters at 0, no LED selected,
\* every intensity as the previous session left it.
LampHardware ==
    {[FilterTurret1 |-> 0, FilterWheel1 |-> 0, DiaLamp |-> 0,
      Selection |-> [c \in LampChannels |-> 0],
      Intensity |-> [c \in LampChannels |-> i]] : i \in {0, 50}}

\* pE800(core, 'pE-800'): the lamp right after construction.
NewLamp(hw, accepts_label) ==
    [pc |-> "ready", accepts_label |-> accepts_label, cache |-> clear_lamp_cache,
     hw |-> hw, request |-> NoRequest, prev |-> NoRequest, cmds |-> <<>>,
     raised |-> None]

InitLamp == lamp \in {NewLamp(hw, a) : hw \in LampHardware, a \in BOOLEAN}

\* One call of preset_channel; prev is the request of the call before when that
\* call returned and the cache was not cleared since.
PresetChannel(oc_dict) ==
    /\ lamp.pc # "none"
    /\ LET r == preset_channel(lamp.cache, lamp.hw, oc_dict, lamp.accepts_label)
       IN  lamp' = [lamp EXCEPT !.pc = IF r.raised = None THEN "returned" ELSE "raised",
                                !.cache = r.cache, !.hw = r.hw, !.cmds = r.cmds,
                                !.raised = r.raised, !.request = oc_dict,
                                !.prev = IF lamp.pc = "returned"
                                         THEN lamp.request ELSE NoRequest]
    /\ UNCHANGED <<head, ls_pc, ls_cfg, ls_shutter_calls, ls_shutter, ls_dmd_cmds,
                   ls_cached, ls_count, varsDmd, varsAf, varsCore>>

\* One call of clear_lamp_cache.
ClearLampCache ==
    /\ lamp.pc \in {"returned", "raised"}
    /\ lamp' = [lamp EXCEPT !.pc = "cleared", !.cache = clear_lamp_cache,
                            !.cmds = <<>>, !.raised = None]
    /\ UNCHANGED <<head, ls_pc, ls_cfg, ls_shutter_calls, ls_shutter, ls_dmd_cmds,
                   ls_cached, ls_count, varsDmd, varsAf, varsCore>>

----------------------------------------------------------------------------
(* microscope_hardware/nanopick/head_api.py: Head; a1manager.py: filling, injecting *)

MIXING_VOLUME == 50

MAX_VOLUME == 600

\* Head._mixing(n): the volumes sent to the controller.
RECURSIVE mixing(_)
mixing(n) == IF n <= 0 THEN <<>> ELSE <<MIXING_VOLUME, -MIXING_VOLUME>> \o mixing(n - 1)

\* Head.filling(volume): the volume sent to the controller.
vol_to_fill(track_volume, volume) ==
    IF volume + track_volume >= MAX_VOLUME THEN MAX_VOLUME - track_volume ELSE volume

\* Head.injecting(volume): the volume sent to the controller.
vol_to_inject(track_volume, volume) ==
    IF volume > track_volume THEN track_volume ELSE volume

\* Largest number of filling and injecting calls in one session.
MaxHeadCalls == 4

\* The volumes of the calls, in nanoliters.
HeadVolumes == {-700, -100, 0, 50, 300, 700}

NoHead == [pc |-> "none"]

\* A1Manager.__init__: attach_nanopick decides whether self.head exists; a new
\* Head tracks a volume of 0.
NewHead(attach_nanopick) ==
    [pc |-> "ready", attached |-> attach_nanopick, track_volume |-> 0, sent |-> <<>>,
     calls |-> 0]

InitHead == head \in {NewHead(a) : a \in BOOLEAN}

\* A1Manager.filling(volume) with Head.filling; mixing_cycles is a parameter of
\* injecting only.
Filling(volume) ==
    /\ head.pc # "none"
    /\ head.calls < MaxHeadCalls
    /\ head' = IF ~head.attached
               THEN [head EXCEPT !.pc = "ignored", !.calls = @ + 1, !.sent = <<>>]
               ELSE LET v == vol_to_fill(head.track_volume, volume)
                    IN  [head EXCEPT !.pc = "filled", !.calls = @ + 1, !.sent = <<v>>,
                                     !.track_volume = @ + v]
    /\ UNCHANGED <<lamp, ls_pc, ls_cfg, ls_shutter_calls, ls_shutter, ls_dmd_cmds,
                   ls_cached, ls_count, varsDmd, varsAf, varsCore>>

\* A1Manager.injecting(volume) with Head.injecting and its default of three
\* mixing cycles.
Injecting(volume) ==
    /\ head.pc # "none"
    /\ head.calls < MaxHeadCalls
    /\ head' = IF ~head.attached
               THEN [head EXCEPT !.pc = "ignored", !.calls = @ + 1, !.sent = <<>>]
               ELSE LET v == vol_to_inject(head.track_volume, volume)
                    IN  [head EXCEPT !.pc = "injected", !.calls = @ + 1,
                                     !.sent = <<v>> \o mixing(3),
                                     !.track_volume = @ - v]
    /\ UNCHANGED <<lamp, ls_pc, ls_cfg, ls_shutter_calls, ls_shutter, ls_dmd_cmds,
                   ls_cached, ls_count, varsDmd, varsAf, varsCore>>

----------------------------------------------------------------------------
(* a1manager.py: A1Manager.light_stimulate *)

\* IS_DMD_ATTACHED
IS_DMD_ATTACHED == ("pE-800" :> TRUE) @@ ("pE-4000" :> FALSE) @@ ("DiaLamp" :> FALSE)

\* A1Manager.set_dmd_exposure and the activate_dmd branch of light_stimulate: the
\* commands sent to the DMD and the cached exposure afterwards.
dmd_commands(cfg, cached, duration_sec) ==
    LET has_dmd == IS_DMD_ATTACHED[cfg.lamp_name]
        exposure == IF has_dmd /\ cached # duration_sec THEN <<"ExposureTime">> ELSE <<>>
        internal == IF has_dmd /\ cfg.trigger_mode = "InternalExpose"
                    THEN <<"display_slm_image">> ELSE <<>>
        activate == IF cfg.activate_dmd /\ has_dmd THEN <<"display_slm_image">> ELSE <<>>
    IN  [cmds |-> exposure \o internal \o activate,
         cached |-> IF has_dmd THEN duration_sec ELSE cached]

close_shutter_never(shutter_calls) == shutter_calls

\* self.lamp.set_LED_shutter(0) after the sleep
close_shutter(shutter_calls) == Append(shutter_calls, 0)

\* Largest number of stimulations in one session.
MaxStimulations == 2

\* Durations of the stimulation in seconds.
Durations == {0, 1, 10}

\* No call of light_stimulate in the session.
IdleShutter ==
    /\ ls_pc = "idle"
    /\ ls_cfg = [lamp_name |-> None]
    /\ ls_shutter_calls = <<>>
    /\ ls_shutter = 0
    /\ ls_dmd_cmds = <<>>
    /\ ls_cached = 0
    /\ ls_count = 0

IdleLight ==
    /\ IdleShutter
    /\ lamp = NoLamp
    /\ head = NoHead

\* A1Manager.__init__ with a lamp, a focus device and a DMD trigger mode;
\* duration_sec is the argument of the call in progress.
InitLight ==
    /\ ls_pc = "idle"
    /\ ls_cfg \in [lamp_name : DOMAIN IS_DMD_ATTACHED, focus : FocusDevices,
                   trigger_mode : {"InternalExpose", "ExternalBulb"},
                   activate_dmd : BOOLEAN, duration_sec : {0}]
    /\ ls_shutter_calls = <<>>
    /\ ls_shutter = 0
    /\ ls_dmd_cmds = <<>>
    /\ ls_cached = 0
    /\ ls_count = 0
    /\ lamp = NoLamp
    /\ head = NoHead

\* light_stimulate from the DMD commands to the sleep: the shutter is opened.
OpenShutter(duration_sec) ==
    LET d == dmd_commands(ls_cfg, ls_cached, duration_sec)
    IN  /\ ls_dmd_cmds' = d.cmds
        /\ ls_cached' = d.cached
        /\ ls_shutter_calls' = <<1>>
        /\ ls_shutter' = 1
        /\ ls_pc' = "sleep"

\* light_stimulate(duration_sec) up to its first wait: the PFS loop when the focus
\* device is PFSOffset, the sleep otherwise.
LightStimulate(duration_sec) ==
    /\ ls_pc \in {"idle", "returned"}
    /\ ls_count < MaxStimulations
    /\ ls_count' = ls_count + 1
    /\ ls_cfg' = [ls_cfg EXCEPT !.duration_sec = duration_sec]
    /\ IF ls_cfg.focus = "PFSOffset"
       THEN /\ ls_pc' = "pfs"
            /\ ls_shutter_calls' = <<>>
            /\ ls_dmd_cmds' = <<>>
            /\ UNCHANGED <<ls_shutter, ls_cached>>
       ELSE OpenShutter(duration_sec)
    /\ UNCHANGED <<lamp, head, varsDmd, varsAf, varsCore>>

\* One reading of 'PFS Status' in _pfs_initialization: the loop ends when the
\* status is 0000001100001010.
PfsPoll(ready) ==
    /\ ls_pc = "pfs"
    /\ IF ready
       THEN OpenShutter(ls_cfg.duration_sec)
       ELSE UNCHANGED <<ls_pc, ls_shutter_calls, ls_shutter, ls_dmd_cmds, ls_cached>>
    /\ UNCHANGED <<ls_cfg, ls_count, lamp, head, varsDmd, varsAf, varsCore>>

\* The end of the sleep: the shutter is closed and light_stimulate returns.
WakeUp ==
    /\ ls_pc = "sleep"
    /\ ls_shutter_calls' = close_shutter(ls_shutter_calls)
    /\ ls_shutter' = ls_shutter_calls'[Len(ls_shutter_calls')]
    /\ ls_pc' = "returned"
    /\ UNCHANGED <<ls_cfg, ls_dmd_cmds, ls_cached, ls_count, lamp, head, varsDmd, varsAf,
                   varsCore>>

\* The instrument before any call.
IdleInstr == IdleDmd /\ IdleAf /\ IdleLight

----------------------------------------------------------------------------
(* The three _calibrate_dish methods as operations *)

\* Stage coordinates (micron) the operator may confirm at prompt_for_center:
\* tenths of a micron up to MaxRefTenths * 100000 / 10 in either direction.
MaxRefTenths == 2

RefCoords ==
    {Rat(t * 100000 + f, 10) : t \in -MaxRefTenths..MaxRefTenths, f \in {0, 4}}

IdlePlate ==
    /\ cal_dish = None
    /\ cal_pc = "idle"
    /\ cal_ref = <<>>
    /\ cal_map = <<>>

\* Dish96well._calibrate_dish: prompt_for_center, then the fixed arithmetic.
Calibrate96(x, y) ==
    /\ cal_dish = "96well"
    /\ cal_pc = "prompt"
    /\ cal_pc' = "returned"
    /\ cal_ref' = <<x, y>>
    /\ cal_map' = Dish96well_calibrate(<<x, y>>)
    /\ UNCHANGED <<varsInstr, cal_dish, vars35, varsGeom, varsDish>>

\* DishIbidi._calibrate_dish: prompt_for_center, then the fixed arithmetic.
CalibrateIbidi(x, y) ==
    /\ cal_dish = "ibidi-8well"
    /\ cal_pc = "prompt"
    /\ cal_pc' = "returned"
    /\ cal_ref' = <<x, y>>
    /\ cal_map' = DishIbidi_calibrate(<<x, y>>)
    /\ UNCHANGED <<varsInstr, cal_dish, vars35, varsGeom, varsDish>>

----------------------------------------------------------------------------
(* dish_calib_manager.py, well_grid_manager.py: registries and factories *)

\* The dish_name keyword of a class statement: absent, a string or a tuple.
KwNone == [kind |-> "none", names |-> <<>>]
KwStr(n) == [kind |-> "str", names |-> <<n>>]
KwTuple(t) == [kind |-> "tuple", names |-> t]

\* The class statements of the subclasses:
\*   class Dish35mm(DishCalibManager), class Dish96well(DishCalibManager),
\*   class DishIbidi(DishCalibManager), class WellCircleGrid(WellGridManager),
\*   class WellSquareGrid(WellGridManager, dish_name=('ibidi-8well',)),
\*   class DummyWellGridManager(WellGridManager, dish_name="dummy")
ClassStatement ==
    [Dish35mm |-> [base |-> "DishCalibManager", dish_name |-> KwNone],
     Dish96well |-> [base |-> "DishCalibManager", dish_name |-> KwNone],
     DishIbidi |-> [base |-> "DishCalibManager", dish_name |-> KwNone],
     WellCircleGrid |-> [base |-> "WellGridManager", dish_name |-> KwNone],
     WellSquareGrid |-> [base |-> "WellGridManager", dish_name |-> KwTuple(<<"ibidi-8well">>)],
     DummyWellGridManager |-> [base |-> "WellGridManager", dish_name |-> KwStr("dummy")]]

Classes == DOMAIN ClassStatement

\* Python truth value of the dish_name keyword.
Truthy(kw) ==
    /\ kw.kind # "none"
    /\ kw.names # <<>>
    /\ kw.kind = "str" => kw.names[1] # ""

\* dict.get(key), None when the key is absent.
Get(dict, key) == IF key \in DOMAIN dict THEN dict[key] ELSE None

\* DishCalibManager.__init_subclass__: the registry after the class statement.
DishCalibManager_init_subclass(cls, kw) ==
    IF Truthy(kw) THEN (kw.names[1] :> cls) @@ dish_classes ELSE dish_classes

\* WellGridManager.__init_subclass__: dish_names is bound only for a string.
WellGridManager_init_subclass(cls, kw) ==
    IF ~Truthy(kw)
    THEN [raised |-> None, classes |-> well_classes]
    ELSE IF kw.kind = "str"
    THEN [raised |-> None, classes |-> (kw.names[1] :> cls) @@ well_classes]
    ELSE [raised |-> "UnboundLocalError", classes |-> well_classes]

\* The module of class cls is imported: its class statement runs.
DefineClass(cls) ==
    /\ class_state[cls] = "undefined"
    /\ LET st == ClassStatement[cls]
       IN  IF st.base = "DishCalibManager"
           THEN /\ dish_classes' = DishCalibManager_init_subclass(cls, st.dish_name)
                /\ class_state' = [class_state EXCEPT ![cls] = "defined"]
                /\ well_classes' = well_classes
           ELSE LET r == WellGridManager_init_subclass(cls, st.dish_name)
                IN  /\ well_classes' = r.classes
                    /\ class_state' = [class_state EXCEPT
                           ![cls] = IF r.raised = None THEN "defined" ELSE r.raised]
                    /\ dish_classes' = dish_classes
    /\ UNCHANGED <<varsInstr, fac, dish_name, dish_obj, files, cd_calls, vars35, varsPlate, varsGeom>>

\* Whether the __post_init__ that runs for an instance of cls sets calib_path:
\* each subclass defines its own __post_init__, which only unpacks its settings
\* and does not call DishCalibManager.__post_init__.
post_init_sets_calib_path ==
    [Dish35mm |-> FALSE, Dish96well |-> FALSE, DishIbidi |-> FALSE]

\* dish_class(dish_name=dish_name, run_dir=run_dir)
Construct(cls, name) ==
    [cls |-> cls, dish_name |-> name, has_calib_path |-> post_init_sets_calib_path[cls]]

NoObj == [cls |-> None]

\* DishCalibManager.dish_calib_factory(dish_name, run_dir)
DishCalibFactory(name) ==
    /\ LET dish_class == Get(dish_classes, name)
       IN  IF dish_class = None
           THEN /\ fac' = [fn |-> "dish_calib_factory", name |-> name,
                           raised |-> "ValueError", cls |-> None,
                           prompts |-> 0, instrument |-> 0, writes |-> 0]
                /\ dish_obj' = dish_obj
           ELSE /\ fac' = [fn |-> "dish_calib_factory", name |-> name,
                           raised |-> None, cls |-> dish_class,
                           prompts |-> 0, instrument |-> 0, writes |-> 0]
                /\ dish_obj' = Construct(dish_class, name)
    /\ UNCHANGED <<varsInstr, class_state, dish_classes, well_classes, dish_name, files, cd_calls,
                   vars35, varsPlate, varsGeom>>

\* WellGridManager.load_subclass_instance(dish_name, window_center_offset_pix,
\* dmd_window_only, a1_manager): _configure_grid_instance reads the instrument.
LoadSubclassInstance(name) ==
    /\ LET well_class == Get(well_classes, name)
       IN  IF well_class = None
           THEN fac' = [fn |-> "load_subclass_instance", name |-> name,
                        raised |-> "ValueError", cls |-> None,
                        prompts |-> 0, instrument |-> 0, writes |-> 0]
           ELSE fac' = [fn |-> "load_subclass_instance", name |-> name,
                        raised |-> None, cls |-> well_class,
                        prompts |-> 0, instrument |-> 1, writes |-> 0]
    /\ UNCHANGED <<varsInstr, class_state, dish_classes, well_classes, dish_name, dish_obj, files,
                   cd_calls, vars35, varsPlate, varsGeom>>

----------------------------------------------------------------------------
(* dish_calib_manager.py: calibrate_dish; main_dish_manager.py: DishManager *)

\* The class written for each dish.
ClassOf == [d \in {"35mm", "96well", "ibidi-8well"} |->
               IF d = "35mm" THEN "Dish35mm"
               ELSE IF d = "96well" THEN "Dish96well" ELSE "DishIbidi"]

\* What _calibrate_dish of class cls returns for one fixed series of operator inputs.
FullCalibration(cls) ==
    IF cls = "Dish35mm"
    THEN LET fit == find_circle(<<4, 0>>, <<0, 4>>, <<-4, 0>>)
         IN  ("A1" :> [center |-> fit.center, radius2 |-> fit.radius2])
    ELSE IF cls = "Dish96well"
    THEN Dish96well_calibrate(<<RInt(0), RInt(0)>>)
    ELSE DishIbidi_calibrate(<<RInt(0), RInt(0)>>)

\* DishCalibManager._filter_wells
filter_wells(well_selection, dish_measurements) ==
    [well \in {w \in DOMAIN dish_measurements : w \in well_selection}
        |-> dish_measurements[well]]

\* save_file(file_name_key, data) writes <file_name_key>.json: called with
\* calib_path it writes next to calib_path, not to it.
save_file(fs, file_name_key, data) == ((file_name_key \o ".json") :> data) @@ fs

\* DishCalibManager.calibrate_dish(nikon, well_selection, overwrite) on instance obj
\* with the files fs: what it raises or returns, the prompts issued, the files after.
calibrate_dish(obj, fs, well_selection, overwrite) ==
    IF ~obj.has_calib_path
    THEN \* self.calib_path: the attribute was never set
         [raised |-> "AttributeError", ret |-> <<>>, prompts |-> 0, files |-> fs]
    ELSE IF "calib_path" \in DOMAIN fs /\ ~overwrite
    THEN [raised |-> None, ret |-> filter_wells(well_selection, fs["calib_path"]),
          prompts |-> 0, files |-> fs]
    ELSE LET dish_calibration == FullCalibration(obj.cls)
             filtered_dish_calibration == filter_wells(well_selection, dish_calibration)
         IN  [raised |-> None, ret |-> filtered_dish_calibration, prompts |-> 1,
              files |-> save_file(fs, "calib_path", filtered_dish_calibration)]

\* Region names a caller may select.
WellSelections == {{"A1"}, {"A1", "B2"}}

\* Number of calibrate_dish calls explored in one run directory.
MaxCalls == 2

\* The class statement of the run directory's dish has run.
DishImported == class_state[ClassOf[dish_name]] = "defined"

\* A caller constructs the class of the run directory's dish.
NewDish ==
    /\ DishImported
    /\ dish_obj.cls = None
    /\ dish_obj' = Construct(ClassOf[dish_name], dish_name)
    /\ UNCHANGED <<varsInstr, class_state, dish_classes, well_classes, fac, dish_name, files, cd_calls,
                   vars35, varsPlate, varsGeom>>

\* A call of DishCalibManager.calibrate_dish on the instance.
CalibrateDish(well_selection, overwrite) ==
    /\ dish_obj.cls # None
    /\ Len(cd_calls) < MaxCalls
    /\ LET r == calibrate_dish(dish_obj, files, well_selection, overwrite)
       IN  /\ cd_calls' = Append(cd_calls,
                  [via |-> "DishCalibManager", imported |-> TRUE,
                   well_selection |-> well_selection,
                   overwrite |-> overwrite, raised |-> r.raised, ret |-> r.ret,
                   prompts |-> r.prompts])
           /\ files' = r.files
    /\ UNCHANGED <<varsInstr, class_state, dish_classes, well_classes, fac, dish_name, dish_obj,
                   vars35, varsPlate, varsGeom>>

\* A call of DishManager.calibrate_dish: the factory, the instance's
\* calibrate_dish, then save_json(self.calib_path, self.dish_calibration).
DishManagerCalibrateDish(well_selection, overwrite) ==
    /\ Len(cd_calls) < MaxCalls
    /\ LET dish_class == Get(dish_classes, dish_name)
       IN  IF dish_class = None
           THEN /\ cd_calls' = Append(cd_calls,
                       [via |-> "DishManager", imported |-> DishImported,
                        well_selection |-> well_selection,
                        overwrite |-> overwrite, raised |-> "ValueError", ret |-> <<>>,
                        prompts |-> 0])
                /\ files' = files
                /\ dish_obj' = dish_obj
           ELSE LET dish == Construct(dish_class, dish_name)
                    r == calibrate_dish(dish, files, well_selection, overwrite)
                IN  /\ cd_calls' = Append(cd_calls,
                           [via |-> "DishManager", imported |-> DishImported,
                        well_selection |-> well_selection,
                            overwrite |-> overwrite, raised |-> r.raised, ret |-> r.ret,
                            prompts |-> r.prompts])
                    /\ files' = IF r.raised = None
                                THEN ("calib_path" :> r.ret) @@ r.files
                                ELSE r.files
                    /\ dish_obj' = dish
    /\ UNCHANGED <<varsInstr, class_state, dish_classes, well_classes, fac, dish_name,
                   vars35, varsPlate, varsGeom>>

NoFactoryCall == [fn |-> "none"]

\* Names handed to the factories.
DishNames == {"35mm", "96well", "ibidi-8well", "dummy", "6well"}

IdleDish ==
    /\ class_state = [c \in Classes |-> "undefined"]
    /\ dish_classes = <<>>
    /\ well_classes = <<>>
    /\ fac = NoFactoryCall
    /\ dish_name = None
    /\ dish_obj = NoObj
    /\ files = <<>>
    /\ cd_calls = <<>>

----------------------------------------------------------------------------
(* Specifications *)

\* A call of _calibrate_dish on an instance of one of the three dish classes.
InitCalib ==
    /\ IdleInstr
    /\ IdleGeom
    /\ IdleDish
    /\ \/ /\ Init35
          /\ cal_dish = "35mm"
          /\ cal_pc = "idle"
          /\ cal_ref = <<>>
          /\ cal_map = <<>>
       \/ /\ Idle35
          /\ cal_dish \in {"96well", "ibidi-8well"}
          /\ cal_pc = "prompt"
          /\ cal_ref = <<>>
          /\ cal_map = <<>>

NextCalib ==
    \/ \E p1, p2, p3 \in EdgePoints : Capture35(p1, p2, p3)
    \/ \E yes \in BOOLEAN : Approve35(yes)
    \/ \E x, y \in RefCoords : Calibrate96(x, y)
    \/ \E x, y \in RefCoords : CalibrateIbidi(x, y)

SpecCalib == InitCalib /\ [][NextCalib]_vars

\* A call of one of the geometry functions.
InitGeom ==
    /\ IdleInstr
    /\ IdleGeom
    /\ Idle35
    /\ IdlePlate
    /\ IdleDish

NextGeom ==
    \/ \E x1, y1, x2, y2, x3, y3 \in Coords :
          FindCircleCall(<<x1, y1>>, <<x2, y2>>, <<x3, y3>>)
    \/ \E wx, wy \in WindowLengths, ax, ay \in AxisLengths, ov \in OverlapArgs :
          LayoutCall(<<wx, wy>>, <<ax, ay>>, ov)
    \/ \E well \in CircleWells, w \in CircleWindows, x, y \in CandidateCoords,
          k \in CornerArgs :
          WithinCircleCall(well, w, x, y, k)

SpecGeom == InitGeom /\ [][NextGeom]_vars

\* The grid of one well: configuration, serpentine build, random subset.
NextGrid ==
    \/ \E kind \in GridKinds, att \in BOOLEAN, obj \in Objectives, b \in Binnings,
          pix \in PixelOffsets, flag \in BOOLEAN :
          ConfigureGridCall(kind, att, obj, b, pix, flag)
    \/ \E xs, ys \in CoordLists, k \in {<<>>, <<2>>} : BuildGridCall(xs, ys, k)
    \/ \E m \in 1..MaxGridPoints, n \in 1..(MaxGridPoints + 1) : RandomiseFovCall(m, n)

SpecGrid == InitGeom /\ [][NextGrid]_vars

\* The candidate tile centers of one well.
NextTile ==
    \/ \E well \in TileCircleWells, w \in TileWindows, ov \in TileOverlaps :
          TileCircleCall(well, w, ov)
    \/ \E ref \in TileSlideCenters, name \in {"A1", "A3", "B2", "B4"},
          w \in TileWindows, ov \in TileOverlaps :
          TileSquareCall(ref, name, w, ov)

SpecTile == InitGeom /\ [][NextTile]_vars

\* One map saved and loaded again.
NextJson ==
    \/ \E data \in CalibrationMaps : SaveConfigFile("calibration", data)
    \/ \E data \in GridMaps : SaveConfigFile("grid", data)
    \/ \E data \in LegacyMaps : SaveConfigFile("legacy", data)
    \/ LoadConfigFile

SpecJson == InitGeom /\ [][NextJson]_vars

\* One call of generate_random_points; every iteration whose draw is accepted
\* keeps being possible until it happens.
NextPoints ==
    \/ \E call \in PointCalls : GenerateRandomPointsStart(call)
    \/ DrawPoint
    \/ ReturnPoints

SpecPoints == InitGeom /\ [][NextPoints]_vars /\ WF_vars(NextPoints)

\* The lamp of one session: a pE-800 and its preset_channel calls.
InitLampSpec ==
    /\ InitLamp
    /\ head = NoHead
    /\ IdleShutter
    /\ IdleDmd
    /\ IdleAf
    /\ IdleGeom
    /\ Idle35
    /\ IdlePlate
    /\ IdleDish

NextLamp ==
    \/ \E oc_dict \in OpticalConfigurations : PresetChannel(oc_dict)
    \/ ClearLampCache

SpecLamp == InitLampSpec /\ [][NextLamp]_vars

\* The Nanopick head of one session and its filling and injecting calls.
InitHeadSpec ==
    /\ InitHead
    /\ lamp = NoLamp
    /\ IdleShutter
    /\ IdleDmd
    /\ IdleAf
    /\ IdleGeom
    /\ Idle35
    /\ IdlePlate
    /\ IdleDish

NextHead ==
    \/ \E volume \in HeadVolumes : Filling(volume)
    \/ \E volume \in HeadVolumes : Injecting(volume)

SpecHead == InitHeadSpec /\ [][NextHead]_vars

\* The DMD objects of one session.
InitDmdSpec ==
    /\ InitDmd
    /\ IdleAf
    /\ IdleLight
    /\ IdleGeom
    /\ Idle35
    /\ IdlePlate
    /\ IdleDish

NextDmd ==
    \/ \E label \in LIST_TURRETS : SetTurretLabel(label)
    \/ \E n \in (-3)..MaxPoints : CreateDmdPointList(n)
    \/ GetTransformationMatrix
    \/ \E transform_mask \in BOOLEAN : LoadDmdMask(transform_mask)
    \/ \E n \in {-3, 0, 3, 4, MaxPoints}, overwrite \in BOOLEAN, profile \in ProfileFiles :
          DmdCalibrationStart(n, overwrite, profile)
    \/ DmdCalibrationTurret
    \/ DmdCalibrationSave

SpecDmd == InitDmdSpec /\ [][NextDmd]_vars

\* One run of the autofocus, called directly or from launch_dish_workflow.
InitAf ==
    /\ IdleAf
    /\ IdleDmd
    /\ IdleLight
    /\ IdleGeom
    /\ Idle35
    /\ IdlePlate
    /\ IdleDish

NextAf ==
    \/ \E entry \in {"run_autofocus", "launch_dish_workflow"}, method \in AfMethods,
          overwrite \in BOOLEAN, focus_device \in FocusDevices :
          \E file \in CalibFiles(focus_device) :
             RunAutofocusStart(entry, method, overwrite, focus_device, file)
    \/ LaunchCalibrateRaises
    \/ ForLoop
    \/ \E focus \in FocusValues : FocusOneWell(focus)
    \/ \E answer \in {"continue", "restart", "quit"} : AutofocusReview(answer)
    \/ \E call_matches_signature \in BOOLEAN : LaunchAfterAutofocus(call_matches_signature)
    \/ \E name \in {"35mm", "96well", "ibidi-8well"}, template \in Templates96well :
          NewDishManager(name, template)

SpecAf == InitAf /\ [][NextAf]_vars

\* One A1Manager and its light stimulations.
InitLightSpec ==
    /\ InitLight
    /\ IdleDmd
    /\ IdleAf
    /\ IdleGeom
    /\ Idle35
    /\ IdlePlate
    /\ IdleDish

NextLight ==
    \/ \E duration_sec \in Durations : LightStimulate(duration_sec)
    \/ \E ready \in BOOLEAN : PfsPoll(ready)
    \/ WakeUp

SpecLight == InitLightSpec /\ [][NextLight]_vars

\* A fresh interpreter and run directory: the modules are imported in any order,
\* the factories and calibrate_dish are called.
InitDish ==
    /\ IdleInstr
    /\ IdleGeom
    /\ Idle35
    /\ IdlePlate
    /\ class_state = [c \in Classes |-> "undefined"]
    /\ dish_classes = <<>>
    /\ well_classes = <<>>
    /\ fac = NoFactoryCall
    /\ dish_name \in {"35mm", "96well", "ibidi-8well"}
    /\ dish_obj = NoObj
    /\ files = <<>>
    /\ cd_calls = <<>>

NextDish ==
    \/ \E cls \in Classes : DefineClass(cls)
    \/ \E name \in DishNames : DishCalibFactory(name)
    \/ \E name \in DishNames : LoadSubclassInstance(name)
    \/ NewDish
    \/ \E sel \in WellSelections, ow \in BOOLEAN : CalibrateDish(sel, ow)
    \/ \E sel \in WellSelections, ow \in BOOLEAN : DishManagerCalibrateDish(sel, ow)

SpecDish == InitDish /\ [][NextDish]_vars

----------------------------------------------------------------------------
(* Claims on the calibrators *)

\* |r - expected_radius| <= 5% of expected_radius, on the squared radius:
\* (0.95 R)^2 <= r^2 <= (1.05 R)^2.
WithinFivePercent(radius2) ==
    /\ RLe(Rat(361 * expected_radius * expected_radius, 400), radius2)
    /\ RLe(radius2, Rat(441 * expected_radius * expected_radius, 400))

\* C3: Dish35mm._calibrate_dish returns a region only when the radius of the most
\* recent three-point capture is within 5% of the expected radius or the operator
\* accepted it; every rejection is followed by a new capture before the return;
\* the returned circle is the one through the three points of the last capture.
C3_ReturnsOnlyAcceptedRadius ==
    /\ c35_pc = "returned" =>
          /\ WithinFivePercent(c35_result.radius2) \/ c35_approved
          /\ c35_ncapt = c35_nreject + 1
          /\ \A k \in 1..3 :
                Dist2(c35_result.center, RPoint(c35_points[k])) = c35_result.radius2
    /\ c35_pc \in {"capture", "approve", "raised"} => c35_result = <<>>
    /\ c35_pc = "approve" => c35_ncapt = c35_nreject + 1
    /\ c35_pc = "capture" => c35_ncapt = c35_nreject

\* A region returned on the operator's acceptance of an out-of-range radius,
\* after an earlier capture was rejected.
C3_Witness ==
    /\ c35_pc = "returned"
    /\ c35_approved
    /\ c35_nreject >= 1
    /\ ~WithinFivePercent(c35_result.radius2)

\* C4: a collinear three-point capture fails only that attempt: the calibrator
\* goes back to asking for three points, raises nothing and returns no region.
C4_CollinearCaptureIsRetried ==
    (c35_ncapt > 0 /\ Determinant(c35_points[1], c35_points[2], c35_points[3]) = 0)
        => c35_pc = "capture"

\* C7: Dish96well yields exactly the 96 wells A1..H12; row i, column j is centred
\* at (x0 - j * length / (cols - 1), y0 + i * width / (rows - 1)) with the fixed
\* radius; H12 is at (x0 - 11 * column_pitch, y0 + 7 * row_pitch).
C7_Plate96 ==
    (cal_dish = "96well" /\ cal_pc = "returned") =>
        LET S == SETTINGS_96WELL
            x0 == cal_ref[1]
            y0 == cal_ref[2]
        IN  /\ Cardinality(DOMAIN cal_map) = 96
            /\ DOMAIN cal_map =
                  {ascii_uppercase[r] \o ToString(c) : r \in 1..8, c \in 1..12}
            /\ \A i \in 0..7, j \in 0..11 :
                  LET w == cal_map[WellName(i, j)]
                  IN  /\ RMul(RInt(S.col_number - 1), RSub(x0, w.center[1]))
                            = RInt(j * S.length)
                      /\ RMul(RInt(S.row_number - 1), RSub(w.center[2], y0))
                            = RInt(i * S.width)
                      /\ w.radius = RInt(S.well_radius)
            /\ cal_map["H12"].center
                  = <<RSub(x0, RInt(S.length)), RAdd(y0, RInt(S.width))>>

\* A 96-well calibration from a reference point off the origin.
C7_Witness ==
    /\ cal_dish = "96well"
    /\ cal_pc = "returned"
    /\ cal_ref = <<Rat(100004, 10), Rat(-200000, 10)>>
    /\ "H12" \in DOMAIN cal_map

\* Two compartments do not overlap: they are separated along x or along y
\* (x decreases from top_left to bottom_right, y increases).
Disjoint(a, b) ==
    \/ RLe(a.top_left[1], b.bottom_right[1])
    \/ RLe(b.top_left[1], a.bottom_right[1])
    \/ RLe(a.bottom_right[2], b.top_left[2])
    \/ RLe(b.bottom_right[2], a.top_left[2])

\* C8: DishIbidi derives, for row i and column j, top_left = (x_tl - j * well_length
\* - sum of the first j gaps, y_tl + i * (well_width + gap_width)) and bottom_right
\* shifted alike; A1 is centred on the reference point, every compartment is
\* well_length x well_width, compartments j-1 and j of a row are separated by
\* exactly gap j-1, and no two compartments overlap.
C8_Ibidi ==
    (cal_dish = "ibidi-8well" /\ cal_pc = "returned") =>
        LET S == SETTINGS_IBIDI
            gaps == S.well_gap_length
            x_tl == RAdd(cal_ref[1], Rat(S.well_length, 2))
            y_tl == RSub(cal_ref[2], Rat(S.well_width, 2))
            W(i, j) == cal_map[WellName(i, j)]
            GapsBefore(j) == IF j = 0 THEN 0
                             ELSE IF j = 1 THEN gaps[1]
                             ELSE IF j = 2 THEN gaps[1] + gaps[2]
                             ELSE gaps[1] + gaps[2] + gaps[3]
        IN  /\ DOMAIN cal_map = {WellName(i, j) : i \in 0..1, j \in 0..3}
            /\ Cardinality(DOMAIN cal_map) = 8
            /\ RAdd(W(0, 0).top_left[1], W(0, 0).bottom_right[1])
                  = RMul(RInt(2), cal_ref[1])
            /\ RAdd(W(0, 0).top_left[2], W(0, 0).bottom_right[2])
                  = RMul(RInt(2), cal_ref[2])
            /\ \A i \in 0..1, j \in 0..3 :
                  /\ W(i, j).top_left
                        = <<RSub(x_tl, RInt(j * S.well_length + GapsBefore(j))),
                            RAdd(y_tl, RInt(i * (S.well_width + S.well_gap_width)))>>
                  /\ RSub(W(i, j).top_left[1], W(i, j).bottom_right[1])
                        = RInt(S.well_length)
                  /\ RSub(W(i, j).bottom_right[2], W(i, j).top_left[2])
                        = RInt(S.well_width)
            /\ \A i \in 0..1, j \in 1..3 :
                  RSub(W(i, j - 1).bottom_right[1], W(i, j).top_left[1]) = RInt(gaps[j])
            /\ \A a, b \in DOMAIN cal_map :
                  a # b => Disjoint(cal_map[a], cal_map[b])

\* An Ibidi calibration from a reference point off the origin.
C8_Witness ==
    /\ cal_dish = "ibidi-8well"
    /\ cal_pc = "returned"
    /\ cal_ref = <<Rat(-100000, 10), Rat(200004, 10)>>
    /\ "B4" \in DOMAIN cal_map

----------------------------------------------------------------------------
(* Claims on the geometry kernel and the grid builder *)

\* C5: find_circle raises the collinearity error exactly when the determinant
\* x1(y2 - y3) + x2(y3 - y1) + x3(y1 - y2) is zero; otherwise the returned center
\* has the same squared distance to p1, p2 and p3, and the radius is that distance.
C5_FindCircle ==
    g_call.op = "find_circle" =>
        LET p1 == g_call.points[1]
            p2 == g_call.points[2]
            p3 == g_call.points[3]
            det == p1[1] * (p2[2] - p3[2]) + p2[1] * (p3[2] - p1[2])
                       + p3[1] * (p1[2] - p2[2])
        IN  /\ (g_out.raised = "ValueError") <=> (det = 0)
            /\ det # 0 =>
                  /\ g_out.raised = None
                  /\ Dist2(g_out.center, RPoint(p1)) = g_out.radius2
                  /\ Dist2(g_out.center, RPoint(p2)) = g_out.radius2
                  /\ Dist2(g_out.center, RPoint(p3)) = g_out.radius2

\* find_circle returned the circle through three points that are not on a
\* circle around the origin and whose center is not a grid point.
C5_Witness ==
    /\ g_call.op = "find_circle"
    /\ g_call.points = <<(<<-1, -1>>), (<<1, 0>>), (<<0, 1>>)>>
    /\ g_out.raised = None
    /\ g_out.center[1][2] # 1

\* C9: with no overlap supplied, the overlap the grid builder uses on each axis,
\* for axis extent A and window size W, is (n - A/W)/n with n = ceil(A/W); it lies
\* in [0, 1) and n * W * (1 - overlap) = A.
C9_OptimalOverlap ==
    (g_call.op = "layout" /\ g_call.overlap = NoOverlap) =>
        \A k \in 1..2 :
            LET A == g_call.axis_length[k]
                W == g_call.window_size[k]
                n == RInt(RCeil(RDiv(A, W)))
                ov == g_out.overlaps[k]
            IN  /\ ov = RDiv(RSub(n, RDiv(A, W)), n)
                /\ RLe(RInt(0), ov)
                /\ RLt(ov, RInt(1))
                /\ RMul(RMul(n, W), RSub(RInt(1), ov)) = A

\* C10: for overlap in [0, 1) and W * (1 - overlap) > 0, the number of tiles on
\* each axis is defined and equals floor(A / (W * (1 - overlap))) on the exact
\* quotient, so the centering correction (A - W * (1 - overlap) * num_rects) / 2
\* is never negative.
C10_NumRects ==
    g_call.op = "layout" =>
        \A k \in 1..2 :
            LET A == g_call.axis_length[k]
                W == g_call.window_size[k]
                ov == g_out.overlaps[k]
                step == RMul(W, RSub(RInt(1), ov))
            IN  (RLe(RInt(0), ov) /\ RLt(ov, RInt(1)) /\ RLt(RInt(0), step)) =>
                    /\ g_out.raised = None
                    /\ g_out.num_rects[k] = RFloor(RDiv(A, step))
                    /\ RLe(RInt(0), g_out.align_correction[k])

----------------------------------------------------------------------------
(* Claims on the factories and on calibrate_dish *)

AllClassStatementsRun == \A c \in Classes : class_state[c] # "undefined"

SupportedDishNames == {"35mm", "96well", "ibidi-8well"}

\* C6: once the dish modules are imported, dish_calib_factory and
\* load_subclass_instance return an instance for '35mm', '96well' and
\* 'ibidi-8well', and for every other name raise the unknown-dish error before
\* any operator prompt, instrument access or file write.
C6_Factories ==
    (AllClassStatementsRun /\ fac.fn # "none") =>
        /\ fac.name \in SupportedDishNames =>
              /\ fac.raised = None
              /\ fac.cls # None
        /\ fac.name \notin SupportedDishNames /\ fac.name # "dummy" =>
              /\ fac.raised = "ValueError"
              /\ fac.prompts = 0
              /\ fac.instrument = 0
              /\ fac.writes = 0

\* C1: two calibrate_dish calls for the same dish (its module imported) and the
\* same well_selection, both with overwrite=false, return the same region map,
\* and the second call issues no operator prompt.
C1_SecondCallLoads ==
    \A i, j \in 1..Len(cd_calls) :
        (/\ i < j
         /\ cd_calls[i].imported
         /\ cd_calls[i].well_selection = cd_calls[j].well_selection
         /\ ~cd_calls[i].overwrite
         /\ ~cd_calls[j].overwrite) =>
            /\ cd_calls[i].raised = None
            /\ cd_calls[j].raised = None
            /\ cd_calls[j].ret = cd_calls[i].ret
            /\ cd_calls[j].prompts = 0

\* C2: every calibrate_dish call with overwrite=false (the dish's module
\* imported) returns exactly the regions of the dish's calibration named in that
\* call's well_selection, whatever the selections of the earlier calls.
C2_ReturnsTheSelection ==
    \A i \in 1..Len(cd_calls) :
        (cd_calls[i].imported /\ ~cd_calls[i].overwrite) =>
            /\ cd_calls[i].raised = None
            /\ DOMAIN cd_calls[i].ret =
                  cd_calls[i].well_selection \cap DOMAIN FullCalibration(ClassOf[dish_name])

----------------------------------------------------------------------------
(* Claims on the grid of a circular well *)

\* C11: a candidate window centered at (x, y) is accepted if and only if at
\* least K of its four corners (x +- wx/2, y +- wy/2) have squared distance to the
\* region center <= radius^2 (a corner on the circle counts as inside); K is 4
\* when none is given, and then every accepted window has all four corners
\* inside or on the circle.
C11_CornerRule ==
    g_call.op = "within_circle" =>
        LET K == IF g_call.n_corners_in = <<>> THEN 4 ELSE g_call.n_corners_in[1]
            hw == RDiv(g_call.window_size[1], RInt(2))
            hh == RDiv(g_call.window_size[2], RInt(2))
            x == g_call.rect_coord[1]
            y == g_call.rect_coord[2]
            Corner(sx, sy) == <<RAdd(x, RMul(RInt(sx), hw)), RAdd(y, RMul(RInt(sy), hh))>>
            InOrOn(sx, sy) ==
                RLe(Dist2(Corner(sx, sy), g_call.center), RSq(g_call.radius))
            signs == {<<1, 1>>, <<-1, 1>>, <<1, -1>>, <<-1, -1>>}
            n == Cardinality({sg \in signs : InOrOn(sg[1], sg[2])})
        IN  g_out.accepted <=> (n >= K)

\* Position (from 0) of candidate (x_coords[i + 1], y_coords[j + 1]) in the
\* serpentine visiting order: the y list forward on even i, reversed on odd i.
SerpentinePos(i, j, b) == i * b + (IF i % 2 = 0 THEN j ELSE b - 1 - j)

\* The candidates (index pairs from 0) the built grid's class accepts.
AcceptedCandidates ==
    {c \in (0..(Len(g_call.x_coords) - 1)) \X (0..(Len(g_call.y_coords) - 1)) :
        g_call.inst.kind = "circle" =>
            is_rectangle_within_circle(g_call.inst.center, g_call.inst.radius,
                g_call.inst.window_size,
                <<g_call.x_coords[c[1] + 1], g_call.y_coords[c[2] + 1]>>,
                g_call.inst.n_corners_in)}

\* Number of accepted candidates visited before candidate c.
RankOf(c) ==
    LET b == Len(g_call.y_coords)
    IN  Cardinality({d \in AcceptedCandidates :
                        SerpentinePos(d[1], d[2], b) < SerpentinePos(c[1], c[2], b)})

C14_RandomSubset ==
    g_call.op = "randomise_fov" =>
        LET grid == g_call.well_grid
            N == g_call.numb_field_view
        IN  IF N > Cardinality(DOMAIN grid)
            THEN g_out.raised = "ValueError"
            ELSE /\ g_out.raised = None
                 /\ DOMAIN g_out.well_grid = 0..(N - 1)
                 /\ \E pick \in [0..(N - 1) -> DOMAIN grid] :
                       /\ Injective(pick)
                       /\ \A i \in 0..(N - 1) : g_out.well_grid[i] = grid[pick[i]]
                 /\ Injective(g_out.well_grid)

\* Two of three points were returned in an order other than the grid's.
C14_Witness ==
    /\ g_call.op = "randomise_fov"
    /\ g_out.raised = None
    /\ Cardinality(DOMAIN g_call.well_grid) = 3
    /\ g_call.numb_field_view = 2
    /\ g_out.well_grid[0] = g_call.well_grid[1]
    /\ g_out.well_grid[1] = g_call.well_grid[2]

----------------------------------------------------------------------------
(* Claims on the DMD transform *)

\* C15: the transform calibration fails with the invalid-count error (ValueError)
\* for every requested number of points that is not a positive multiple of 3,
\* before any point is projected, and no matrix is produced from such a request.
C15_InvalidCountRejected ==
    /\ (dmd_call.op = "create_dmd_point_list"
            /\ ~(dmd_call.numb_points > 0 /\ dmd_call.numb_points % 3 = 0))
        => (dmd_out.raised = "ValueError" /\ dmd_log = <<>>)
    /\ (dmd_call.op = "get_transformation_matrix" /\ dmd_out.raised = None)
        => (dmd_points.numb_points > 0 /\ dmd_points.numb_points % 3 = 0)

\* C16: a mask projection that needs the transform fails with the missing-transform
\* error (ValueError) when no matrix is on file for the active filter-turret label,
\* and warpAffine is never called with an undefined matrix.
C16_MissingTransformIsFatal ==
    /\ (dmd_call.op = "load_dmd_mask" /\ dmd_call.transform_mask
            /\ dict_get(IF dmd_transfo.py = "None" THEN PyDict(<<>>) ELSE dmd_transfo,
                        dmd_label).py = "None")
        => dmd_out.raised = "ValueError"
    /\ \A k \in 1..Len(dmd_log) :
          dmd_log[k].event = "warpAffine" => dmd_log[k].M.item.py # "None"

----------------------------------------------------------------------------
(* Claims on the autofocus workflow *)

\* The wells run_autofocus has to focus, in visiting order: those of sorted_wells
\* the call does not skip, judged on the file the call started from.
ToFocus ==
    SelectSeq(af_sorted,
              LAMBDA w : ~(af_args.file[w].focus[af_args.focus_device] # NoFocus
                           /\ ~af_args.overwrite))

\* The wells whose iteration has ended, in order.
DoneWells ==
    LET done == SelectSeq(af_log, LAMBDA e : e.ev = "done")
    IN  [k \in 1..Len(done) |-> done[k].well]

CountEvents(ev, well) ==
    Cardinality({k \in 1..Len(af_log) : af_log[k].ev = ev /\ af_log[k].well = well})

\* C17: RestartAutofocus is caught in _focus_one_well, which repeats the move, the
\* focus search and the review for the same well; neither run_autofocus nor
\* launch_dish_workflow raises it, and no other well is processed again or skipped.
C17_RestartRepeatsSameWell ==
    af_pc \in {"loop", "well", "review", "returned", "raised"} /\ af_sorted # <<>> =>
        /\ af_raised # "RestartAutofocus"
        /\ wf_out # <<>> => wf_out.raised # "RestartAutofocus"
        /\ \A k \in 1..Len(af_log) :
              af_log[k].ev = "restart" =>
                  \/ k = Len(af_log) /\ af_pc = "well"
                        /\ af_sorted[af_idx + 1] = af_log[k].well
                  \/ /\ k + 3 <= Len(af_log)
                     /\ af_log[k + 1] = Event("move", af_log[k].well)
                     /\ af_log[k + 2] = Event("focus", af_log[k].well)
                     /\ af_log[k + 3] = Event("review", af_log[k].well)
        /\ Len(DoneWells) <= Len(ToFocus)
        /\ DoneWells = SubSeq(ToFocus, 1, Len(DoneWells))
        /\ \A w \in AfWells : CountEvents("focus", w) <= 1 + CountEvents("restart", w)
        /\ af_pc = "returned" => DoneWells = ToFocus

\* The operator restarted the first of three wells, then the run went through.
C17_Witness ==
    /\ af_pc = "returned"
    /\ Len(DoneWells) = 3
    /\ CountEvents("restart", af_sorted[1]) = 2
    /\ CountEvents("focus", af_sorted[1]) = 3

\* C18: when the operator quits, QuitAutofocus leaves _focus_one_well, run_autofocus
\* and launch_dish_workflow; after the quit no well is moved to or focused, and
\* create_well_grids is not executed.
C18_QuitPropagates ==
    \A k \in 1..Len(af_log) :
        af_log[k].ev = "quit" =>
            /\ k = Len(af_log)
            /\ af_pc = "raised"
            /\ af_raised = "QuitAutofocus"
            /\ wf_out # <<>> => wf_out.raised = "QuitAutofocus"

\* launch_dish_workflow ended with the operator's quit.
C18_Witness ==
    /\ af_args.entry = "launch_dish_workflow"
    /\ wf_out = [raised |-> "QuitAutofocus"]
    /\ af_log # <<>>
    /\ af_log[Len(af_log)].ev = "quit"

\* C20: the calibration file is rewritten after each well and before the next: at
\* every point of the run, and when a quit propagates, the file holds the new focus
\* of exactly the wells whose iteration has ended and the earlier values of the
\* other wells.
C20_FileSavedPerWell ==
    af_pc \in {"loop", "well", "review", "returned", "raised"} /\ af_sorted # <<>> =>
        \A w \in AfWells :
            IF \E k \in 1..Len(af_log) : af_log[k].ev = "done" /\ af_log[k].well = w
            THEN \E k \in 1..Len(af_log) :
                    /\ af_log[k].ev = "done" /\ af_log[k].well = w
                    /\ af_file[w] = [af_args.file[w] EXCEPT
                                        !.focus[af_args.focus_device] = af_log[k].focus]
            ELSE af_file[w] = af_args.file[w]

\* Two wells are done and saved with new values, the third is being focused.
C20_Witness ==
    /\ af_pc = "well"
    /\ Len(DoneWells) = 2
    /\ af_args.overwrite
    /\ \A k \in 1..2 : af_file[DoneWells[k]].focus[af_args.focus_device] \in {<<1>>, <<2>>}
    /\ af_file[af_sorted[3]].focus[af_args.focus_device] = <<0>>

\* C23: with overwrite false, a well whose focus for the active device is already
\* set is skipped: the stage is not moved to it, no focus search and no review run
\* for it, and its stored value is the same throughout and when run_autofocus
\* ends; with overwrite true, every well with a center has been focused again
\* when run_autofocus returns.
C23_SkipFocusedWells ==
    af_pc \in {"loop", "well", "review", "returned", "raised"} /\ af_sorted # <<>> =>
        /\ ~af_args.overwrite =>
              \A w \in AfWells :
                  af_args.file[w].focus[af_args.focus_device] # NoFocus =>
                      /\ \A k \in 1..Len(af_log) : af_log[k].well # w
                      /\ af_meas[w] = af_args.file[w]
                      /\ af_file[w] = af_args.file[w]
        /\ af_args.overwrite /\ af_pc = "returned" =>
              \A w \in AfWells :
                  /\ CountEvents("focus", w) >= 1
                  /\ CountEvents("done", w) = 1

\* A run without overwrite has returned: one well was skipped, two were focused.
C23_Witness ==
    /\ af_pc = "returned"
    /\ ~af_args.overwrite
    /\ Len(DoneWells) = 2
    /\ \E w \in AfWells : /\ af_args.file[w].focus[af_args.focus_device] = <<0>>
                          /\ af_file[w].focus[af_args.focus_device] = <<0>>
                          /\ CountEvents("focus", w) = 0

\* C25: in every run of run_autofocus that focuses at least one well, the
\* operator reviews the first well focused in that run, also when wells earlier
\* in the visiting order were skipped, and no well focused after it is reviewed.
C25_ReviewFirstFocusedWell ==
    af_pc = "returned" /\ Len(DoneWells) >= 1 =>
        /\ CountEvents("review", DoneWells[1]) >= 1
        /\ \A k \in 2..Len(DoneWells) : CountEvents("review", DoneWells[k]) = 0

\* C24: in dmd_calibration, for each filter-turret label of the list: when
\* overwrite is false and a matrix for the label is on file, the matrix is only
\* tested and the matrix kept and persisted for the label is the one on file;
\* otherwise a new matrix is created and stored under the label; the matrices of
\* all other labels are as before, and the file written at the end holds exactly
\* these matrices (until then it is as it was found).
C24_PerLabelOverwrite ==
    dmd_call.op = "dmd_calibration" =>
        LET on_file(l) == dmd_call.file # PyNone /\ l \in DOMAIN dmd_call.file.items
            Events(l) == {dmd_log[k].event : k \in {j \in 1..Len(dmd_log) :
                                                       dmd_log[j].label = l}}
            processed == {LIST_TURRETS_order[k] : k \in 1..dmd_out.idx}
            dict == dmd_out.transfo_matrix.items
            saved == dmd_out.raised = "AttributeError"
        IN  /\ \A l \in processed :
                  IF ~dmd_call.overwrite /\ on_file(l)
                  THEN Events(l) = {"test"} /\ dict[l] = dmd_call.file.items[l]
                  ELSE /\ Events(l) = {"create", "test"}
                       /\ l \in DOMAIN dict
                       /\ dict[l].matrix \in {"mean", "nan"}
            /\ \A l \in DOMAIN dict \ processed :
                  on_file(l) /\ dict[l] = dmd_call.file.items[l] /\ Events(l) = {}
            /\ on_file("1-Empty") => "1-Empty" \in DOMAIN dict
            /\ IF saved
               THEN processed = LIST_TURRETS /\ dmd_out.file = dmd_out.transfo_matrix
               ELSE dmd_out.file = dmd_call.file

\* A calibration without overwrite was saved: the matrix of '5-Duo' was on file
\* and is kept, the one of '4-Quad' was created, a third label is untouched.
C24_Witness ==
    /\ dmd_call.op = "dmd_calibration"
    /\ ~dmd_call.overwrite
    /\ dmd_out.raised = "AttributeError"
    /\ dmd_call.file = PyDict([l \in {"5-Duo", "1-Empty"} |-> PyMatrix(l)])
    /\ dmd_out.file = PyDict(("4-Quad" :> PyMatrix("mean")) @@
                             [l \in {"5-Duo", "1-Empty"} |-> PyMatrix(l)])

\* C26: constructing a DishManager on a run directory whose calibration file
\* exists leaves the file as it is, for every dish type, '96well' included: the
\* focus values an earlier autofocus wrote are still in the file.
C26_ConstructionKeepsFile ==
    af_pc = "new_manager" =>
        \A w \in AfWells :
            /\ af_file[w].center = af_args.file[w].center
            /\ \A d \in FocusDevices :
                  af_file[w].focus[d] =
                      IF d = af_args.focus_device
                            /\ \E k \in 1..Len(af_log) :
                                  af_log[k].ev = "done" /\ af_log[k].well = w
                      THEN LET k == CHOOSE j \in 1..Len(af_log) :
                                        af_log[j].ev = "done" /\ af_log[j].well = w
                           IN  af_log[k].focus
                      ELSE af_args.file[w].focus[d]

----------------------------------------------------------------------------
(* Claims on the light stimulation *)

----------------------------------------------------------------------------
(* Claims on the candidate tile centers *)

\* C22: for a calibrated region and a window no larger than its extent, on each
\* axis the first and the last candidate center are equally far from the two
\* opposite edges of the region, and every candidate center lies inside the
\* region at least half a window from those edges: within
\* [c - r + w/2, c + r - w/2] for a circular region, between the top_left and
\* bottom_right corners of the slide calibrator for a rectangular one.
C22_TileBodyCentered ==
    (g_call.op \in {"tile_circle", "tile_square"} /\ g_out.raised = None) =>
        LET circle == g_call.op = "tile_circle"
            lo(k) == IF circle THEN RSub(g_call.center[k], g_call.radius)
                     ELSE IF RLe(g_call.top_left[k], g_call.bottom_right[k])
                          THEN g_call.top_left[k] ELSE g_call.bottom_right[k]
            hi(k) == IF circle THEN RAdd(g_call.center[k], g_call.radius)
                     ELSE IF RLe(g_call.top_left[k], g_call.bottom_right[k])
                          THEN g_call.bottom_right[k] ELSE g_call.top_left[k]
            half(k) == RDiv(g_call.window_size[k], RInt(2))
            coords(k) == IF k = 1 THEN g_out.x_coord ELSE g_out.y_coord
            MinC(k) == CHOOSE a \in Range(coords(k)) : \A b \in Range(coords(k)) : RLe(a, b)
            MaxC(k) == CHOOSE a \in Range(coords(k)) : \A b \in Range(coords(k)) : RLe(b, a)
        IN  \A k \in 1..2 :
                RLe(g_call.window_size[k], RSub(hi(k), lo(k))) =>
                    /\ \A i \in DOMAIN coords(k) :
                          /\ RLe(RAdd(lo(k), half(k)), coords(k)[i])
                          /\ RLe(coords(k)[i], RSub(hi(k), half(k)))
                    /\ coords(k) # <<>> =>
                          RSub(MinC(k), lo(k)) = RSub(hi(k), MaxC(k))

----------------------------------------------------------------------------
(* Claims on the persisted maps *)

\* C27: for every calibration map and every grid map, load_config_file on the
\* file written by save_config_file returns a value equal to the one saved: same
\* keys, same dataclasses, tuples restored from the JSON arrays.
C27_RoundTrip ==
    (g_call.op = "load_config_file" /\ g_call.kind \in {"calibration", "grid"}) =>
        g_out.loaded = g_call.data

----------------------------------------------------------------------------
(* Claims on the calibration points *)

\* The call has returned numb_points points, each inside the window at least 40
\* pixels from its edges, whose radius-10 marks do not intersect pairwise.
GoodPointsReturned ==
    /\ dmd_call.op = "generate_random_points"
    /\ dmd_out.pc = "returned"
    /\ Len(dmd_points.list) = dmd_call.numb_points
    /\ \A k \in DOMAIN dmd_points.list :
          LET y == dmd_points.list[k][1] - dmd_call.window_start[2]
              x == dmd_points.list[k][2] - dmd_call.window_start[1]
          IN  /\ 40 <= x /\ x <= dmd_call.window_size[2] - 40
              /\ 40 <= y /\ y <= dmd_call.window_size[1] - 40
    /\ \A k1, k2 \in DOMAIN dmd_points.list :
          k1 < k2 => ~marks_intersect(dmd_points.list[k1], dmd_points.list[k2])

\* C28: for every window and every positive multiple of 3 N, a call of
\* generate_random_points eventually returns exactly N points that lie inside the
\* window at least 40 pixels from its edges and whose radius-10 marks do not
\* intersect pairwise (every draw that is accepted keeps being possible until
\* it happens).
C28_EventuallyGoodPoints ==
    (dmd_call.op = "generate_random_points" /\ dmd_call.numb_points > 0
        /\ dmd_call.numb_points % 3 = 0) ~> GoodPointsReturned

----------------------------------------------------------------------------
(* Claims on the lamp *)

\* The lamp shows the configuration of the request: both filters, exactly the
\* channel of the requested LED selected, and the requested intensity on it.
HardwareShows(hw, oc_dict) ==
    LET channel == LEDdefault[convert_405_to_400(oc_dict.led)]
    IN  /\ hw.FilterTurret1 = oc_dict.fTurret
        /\ hw.FilterWheel1 = oc_dict.fWheel
        /\ hw.Selection = [c \in LampChannels |-> IF c = channel THEN 1 ELSE 0]
        /\ hw.Intensity[channel] = oc_dict.intensity

----------------------------------------------------------------------------
(* Claims on the Nanopick head *)

\* C30: after any sequence of filling and injecting calls, with positive and
\* negative volumes, the tracked volume of the pipette stays within 0 and
\* MAX_VOLUME.
C30_TrackVolumeInRange ==
    (head.pc \in {"filled", "injected"}) =>
        (0 <= head.track_volume /\ head.track_volume <= MAX_VOLUME)

====
